---- MODULE Spec2Model ----
(***************************************************************************)
(* Pay-per-call gateway of the AI agentic wallet (src/main.py):            *)
(* RateLimiter, TransactionStore, CircleWallet.transfer_usdc,              *)
(* PaidAPIService.call_service and AgenticOrchestrator.process.            *)
(*                                                                         *)
(* Time is the monotonic clock in whole units; amounts are in thousandths  *)
(* of a USDC (0.001 USDC = 1).  Strings that the code inspects character   *)
(* by character (addresses, parameter values) are sequences of             *)
(* one-character strings.                                                  *)
(***************************************************************************)
EXTENDS Integers, Sequences, FiniteSets, TLC

\* ---------------------------------------------------------------- bounds
MaxTime == 5        \* the monotonic clock runs over 0..MaxTime in SpecRL
MaxCallsCfg == 2    \* RateLimiter(max_calls) is drawn from 0..MaxCallsCfg
MaxPeriod == 3      \* RateLimiter(period_seconds) is drawn from 1..MaxPeriod
MaxAllow == 4       \* direct allow() evaluations in one behaviour of SpecRL
MaxOps == 3         \* call_service invocations in one behaviour of Spec
GwMaxTime == 1      \* the clock runs over 0..GwMaxTime in Spec
GwPeriod == 1       \* period_seconds of the gateway's limiter in Spec
MaxStr == 3         \* longest of the short strings given to _sanitize in SpecSan
MaxAmount == 2      \* transfer_usdc is given amounts -MaxAmount..MaxAmount in SpecWallet
MaxRows == 3        \* rows the direct record_transaction calls of SpecStore may reach
MaxCost == 2        \* their cost is drawn from 0..MaxCost
MaxLimit == 4       \* get_recent_transactions(limit) is given 0..MaxLimit
MaxSessions == 3    \* sessions that share one TransactionStore in SpecShared
MaxQueries == 1     \* process() queries in one behaviour of SpecOrch
MaxInputs == 2      \* process() queries in one behaviour of SpecMain
MaxWords == 3       \* words of the phrases given to the extraction helpers
MaxCoroutines == 3  \* call_service coroutines begun in one behaviour of SpecTasks
MaxPayments == 3    \* paid queries of the app in one behaviour of SpecApp

VARIABLES
    now,            \* time.monotonic()
    max_calls,      \* RateLimiter.max_calls
    period,         \* RateLimiter.period
    calls,          \* RateLimiter._calls
    allowLog,       \* history: every direct allow() evaluation, [at, t, ok]
    lastRemaining,  \* history: value returned by the last read of remaining
    transactions,   \* TransactionStore: rows of table transactions
    base,           \* history: number of rows the store held at construction
    call_history,   \* PaidAPIService.call_history
    wallet,         \* CircleWallet: [client, wallet_id]
    did,            \* history: what the last call_service did (admission,
                    \*   transfer request and outcome, service execution)
    okCalls,        \* history: services of the calls that returned success
    ret,            \* history: outcome of the last call_service
    ncalls,         \* history: number of call_service invocations so far
    applied,        \* history: the function last applied on its own, with
                    \*   its arguments and what it returned
    wallet_state,   \* TransactionStore: rows of table wallet_state, [key, value]
    conn,           \* TransactionStore._conn: "open", or "closed" for None
    inflight,       \* per session sharing the store: where it stands in the
                    \*   operation it is running ("idle" between operations)
    uncommitted,    \* rows INSERTed on the connection and not yet committed
    model,          \* AgenticOrchestrator.model: TRUE when the completion
                    \*   provider is configured, FALSE for None
    nqueries,       \* history: number of queries handled so far (process() of
                    \*   main.py, the chat handler of app.py)
    loop,           \* main(): the interactive loop, [running, printed] (whether
                    \*   it still reads input, and what it printed last)
    tasks,          \* call_service coroutines suspended at the wallet await,
                    \*   each with its locals
    session_state   \* app.py: st.session_state, [wallet_balance, transactions]

limiterVars == <<now, max_calls, period, calls, allowLog, lastRemaining>>
gatewayVars == <<transactions, base, call_history, wallet, did,
                 okCalls, ret, ncalls, wallet_state, conn, inflight,
                 uncommitted, model, nqueries, loop, tasks, session_state>>
serviceVars == <<base, call_history, wallet, did, okCalls, ret, ncalls,
                 inflight, uncommitted, model, nqueries, loop, tasks,
                 session_state>>
vars == <<now, max_calls, period, calls, allowLog, lastRemaining,
          transactions, base, call_history, wallet, did,
          okCalls, ret, ncalls, applied, wallet_state, conn, inflight,
          uncommitted, model, nqueries, loop, tasks, session_state>>

Max(a, b) == IF a >= b THEN a ELSE b

\* main() before its first input(): the loop reads, nothing was printed yet.
Loop(running, printed) == [running |-> running, printed |-> printed]
Reading == Loop(TRUE, "none")

\* app.py keeps money in Python floats (IEEE-754 doubles).  Every double the
\* app reaches is a whole number of units of 2^-62 close to a multiple of the
\* double 0.001, which is M1 = 4611686018427388 units: Double(k, d) is the
\* double of k * M1 + d units, k its thousandths and d its distance in units
\* from k times the double 0.001.  The doubles 0.002 and 0.003 are twice and
\* three times the double 0.001; the double 10.0 is 10 * 2^62 units, 960
\* units below 10000 * M1.
Double(k, d) == [k |-> k, d |-> d]
M1_MOD == 10748          \* M1 modulo 2^14
INITIAL_BALANCE == Double(10000, -960)
APP_SERVICE_COSTS ==
    [weather |-> Double(1, 0), stock |-> Double(2, 0), news |-> Double(3, 0)]

\* app.py, "Initialize session state": 10.0 USDC, no transaction, no message
\* (messages holds the number of chat messages).
SessionState(wallet_balance, txs, messages) ==
    [wallet_balance |-> wallet_balance, transactions |-> txs,
     messages |-> messages]
InitialSessionState == SessionState(INITIAL_BALANCE, <<>>, 0)

\* A function applied on its own: its name, arguments and return value.
Applied(fn, args, result) == [fn |-> fn, args |-> args, result |-> result]
NotApplied == Applied("none", <<>>, <<>>)

\* ============================================================ RATE LIMITER

\* _prune's filter: a timestamp t is kept at time tnow iff tnow - t < period.
\* (PruneKeepLate: the variant that keeps a timestamp of age exactly period.)
PruneKeepLate(tnow, t) == tnow - t <= period
PruneKeep(tnow, t) == tnow - t < period

\* RateLimiter._prune evaluated at clock reading tnow.
\* (pruneNothing: the variant that never discards.)
pruneNothing(cs, tnow) == cs
prune(cs, tnow) == SelectSeq(cs, LAMBDA t : PruneKeep(tnow, t))

\* allow()'s test on the pruned list.
\* (AdmitsOffByOne: the variant that compares with <=.)
AdmitsOffByOne(cs) == Len(cs) <= max_calls
Admits(cs) == Len(cs) < max_calls

\* What allow() leaves in _calls when it returns False.
\* (DeniedCallsRecorded: the variant that records the denied call too.)
DeniedCallsRecorded(cs, tnow) == Append(prune(cs, tnow), tnow)
DeniedCalls(cs, tnow) == prune(cs, tnow)

\* What allow() leaves in _calls when it returns True: the pruned list plus
\* the second clock reading t2.
\* (AdmittedCallsForgotten: the variant that forgets to append.)
AdmittedCallsForgotten(cs, tnow, t2) == prune(cs, tnow)
AdmittedCalls(cs, tnow, t2) == Append(prune(cs, tnow), t2)

\* The value of the remaining property at clock reading tnow.
\* (RemainingUnpruned: the variant that reports without pruning first.)
RemainingUnpruned(cs, tnow) == Max(0, max_calls - Len(cs))
remaining(cs, tnow) == Max(0, max_calls - Len(prune(cs, tnow)))

\* The clock readings a second time.monotonic() call can return.
ClockReads == {t \in now..(now + 1) : t <= MaxTime}

\* RateLimiter.allow(): prune at the first clock reading, then either append
\* the second clock reading and return True, or return False.
allowStep(t2) ==
    LET pruned == prune(calls, now)
        ok == Admits(pruned)
    IN  /\ calls' = IF ok THEN AdmittedCalls(calls, now, t2)
                          ELSE DeniedCalls(calls, now)
        /\ now' = IF ok THEN t2 ELSE now

\* allow() called directly; allowLog keeps when it was called (at), the
\* timestamp it recorded or would have recorded (t) and what it returned (ok).
allow ==
    /\ Len(allowLog) < MaxAllow
    /\ \E t2 \in ClockReads :
          /\ allowStep(t2)
          /\ allowLog' = Append(allowLog,
                [at |-> now, t |-> now', ok |-> Admits(prune(calls, now))])
    /\ UNCHANGED <<max_calls, period, lastRemaining>>
    /\ UNCHANGED <<gatewayVars, applied>>

\* A read of the remaining property: prunes, then reports.
readRemaining ==
    /\ calls' = prune(calls, now)
    /\ lastRemaining' = remaining(calls, now)
    /\ UNCHANGED <<now, max_calls, period, allowLog>>
    /\ UNCHANGED <<gatewayVars, applied>>

\* The monotonic clock advances by one unit, up to bound.
Advance(bound) ==
    /\ now < bound
    /\ now' = now + 1
    /\ UNCHANGED <<max_calls, period, calls, allowLog, lastRemaining>>
    /\ UNCHANGED <<gatewayVars, applied>>

Tick == Advance(MaxTime)

\* ============================================================ TRANSACTION STORE

\* TransactionStore.record_transaction: one INSERT into table transactions.
\* id is the AUTOINCREMENT key (rows are never deleted, so it is the row count
\* plus one); params and result are the values that json.dumps serialises;
\* the created_at text is left out.
\* (record_transaction_twice: the variant that inserts the row twice.)
record_transaction_twice(log, service, params, cost, tx_hash, result) ==
    LET row(n) == [id |-> n, service |-> service, params |-> params,
                   cost_usdc |-> cost, tx_hash |-> tx_hash, result |-> result]
    IN  Append(Append(log, row(Len(log) + 1)), row(Len(log) + 2))
\* (record_transaction_replacing: the variant that overwrites the newest row.)
record_transaction_replacing(log, service, params, cost, tx_hash, result) ==
    LET row(n) == [id |-> n, service |-> service, params |-> params,
                   cost_usdc |-> cost, tx_hash |-> tx_hash, result |-> result]
    IN  IF log = <<>> THEN <<row(1)>>
        ELSE [log EXCEPT ![Len(log)] = row(Len(log) + 1)]
record_transaction(log, service, params, cost, tx_hash, result) ==
    Append(log, [id |-> Len(log) + 1, service |-> service, params |-> params,
                 cost_usdc |-> cost, tx_hash |-> tx_hash, result |-> result])

RECURSIVE SumCost(_)
SumCost(log) == IF log = <<>> THEN 0
                ELSE log[1].cost_usdc + SumCost(Tail(log))

\* TransactionStore.get_total_spent: COALESCE(SUM(cost_usdc), 0).
\* (get_total_spent_newest: the variant that reports the newest row's cost.)
get_total_spent_newest(log) == IF log = <<>> THEN 0 ELSE log[Len(log)].cost_usdc
get_total_spent(log) == SumCost(log)

\* TransactionStore.get_recent_transactions: SELECT * FROM transactions ORDER
\* BY id DESC LIMIT limit (limit >= 0): the rows sorted by descending id, cut
\* after the first limit of them.
\* (get_recent_oldest_first: the variant that takes the rows in insertion order.)
RECURSIVE SortDesc(_)
SortDesc(rows) ==
    IF rows = {} THEN <<>>
    ELSE LET top == CHOOSE r \in rows : \A q \in rows : q.id <= r.id
         IN  <<top>> \o SortDesc(rows \ {top})
Rows(log) == {log[i] : i \in DOMAIN log}
Limit(rows, limit) == IF Len(rows) <= limit THEN rows ELSE SubSeq(rows, 1, limit)
get_recent_oldest_first(log, limit) == Limit(log, limit)
get_recent_transactions(log, limit) == Limit(SortDesc(Rows(log)), limit)

\* TransactionStore.set_state: INSERT OR REPLACE INTO wallet_state; key is the
\* PRIMARY KEY, so the row that holds the key, if any, is replaced.
\* (set_state_insert_only: the variant that inserts and replaces nothing.)
set_state_insert_only(table, key, value) ==
    table \cup {[key |-> key, value |-> value]}
set_state(table, key, value) ==
    {r \in table : r.key # key} \cup {[key |-> key, value |-> value]}

\* TransactionStore.get_state: SELECT value FROM wallet_state WHERE key = ?,
\* fetchone(); the default when there is no row.
get_state(table, key, default) ==
    IF \E r \in table : r.key = key
    THEN (CHOOSE r \in table : r.key = key).value
    ELSE default

\* TransactionStore._ensure_schema on a file: CREATE TABLE IF NOT EXISTS makes
\* an empty table only where there is none (exists tells whether the file
\* holds the table already).
\* (ensure_schema_recreate: the variant that makes the table anew each time.)
ensure_schema_recreate(exists, table, empty) == empty
ensure_schema(exists, table, empty) == IF exists THEN table ELSE empty

\* ============================================================ WALLET

HexDigits == {"0","1","2","3","4","5","6","7","8","9",
              "a","b","c","d","e","f","A","B","C","D","E","F"}

\* CircleWallet._ADDRESS_RE.match: ^0x[0-9a-fA-F]{40}$ ($ also matches just
\* before one trailing newline).
ADDRESS_RE(a) ==
    /\ Len(a) >= 42
    /\ a[1] = "0" /\ a[2] = "x"
    /\ \A i \in 3..42 : a[i] \in HexDigits
    /\ \/ Len(a) = 42
       \/ Len(a) = 43 /\ a[43] = "\n"

\* The wallet is live when both the SDK client and a wallet id are set.
\* CircleWallet: the SDK client (TRUE when it was made), and the id and the
\* address of the wallet, "None" until create_wallet set them.
Wallet(client, wallet_id, wallet_address) ==
    [client |-> client, wallet_id |-> wallet_id,
     wallet_address |-> wallet_address]

Live == wallet.client /\ wallet.wallet_id # "None"

\* What the remote create_transaction call can do: raise, or return a
\* transaction whose txHash is whatever the remote service reports.
\* A hash is the sequence of its pieces; <<>> is the empty string.
RemoteOutcomes == { [raises |-> TRUE,  txHash |-> <<>>],
                    [raises |-> FALSE, txHash |-> <<"0xLIVE">>] }

\* uuid4().hex[:56] of _demo_transfer.
UuidHex == {"a1"}

\* CircleWallet._demo_transfer.
demo_transfer(to, amount, desc, uuid) ==
    [success |-> TRUE, tx_hash |-> <<"0xDEMO", uuid>>, error |-> "",
     via |-> "demo", raised |-> FALSE]

\* CircleWallet.transfer_usdc: the payment dict it returns (via records which
\* branch produced it, raised whether the remote call was made and raised).
\* (transfer_usdc_no_except: the variant whose remote failure is not turned
\* into success=False.)
transfer_usdc_no_except(to_address, amount, description, remote, uuid) ==
    IF ~ADDRESS_RE(to_address)
    THEN [success |-> FALSE, tx_hash |-> <<>>, error |-> "Invalid address format",
          via |-> "local", raised |-> FALSE]
    ELSE IF amount <= 0
    THEN [success |-> FALSE, tx_hash |-> <<>>, error |-> "Amount must be positive",
          via |-> "local", raised |-> FALSE]
    ELSE IF ~Live
    THEN demo_transfer(to_address, amount, description, uuid)
    ELSE [success |-> TRUE, tx_hash |-> remote.txHash, error |-> "",
          via |-> "remote", raised |-> remote.raises]
transfer_usdc(to_address, amount, description, remote, uuid) ==
    IF ~ADDRESS_RE(to_address)
    THEN [success |-> FALSE, tx_hash |-> <<>>, error |-> "Invalid address format",
          via |-> "local", raised |-> FALSE]
    ELSE IF amount <= 0
    THEN [success |-> FALSE, tx_hash |-> <<>>, error |-> "Amount must be positive",
          via |-> "local", raised |-> FALSE]
    ELSE IF ~Live
    THEN demo_transfer(to_address, amount, description, uuid)
    ELSE IF remote.raises
    THEN [success |-> FALSE, tx_hash |-> <<>>, error |-> "remote", via |-> "remote",
          raised |-> TRUE]
    ELSE [success |-> TRUE, tx_hash |-> remote.txHash, error |-> "",
          via |-> "remote", raised |-> FALSE]

\* CircleWallet._VALID_BLOCKCHAINS and the test create_wallet makes first.
\* (valid_blockchain_any_case: the variant that ignores the case.)
VALID_BLOCKCHAINS == {"ARC-TESTNET", "ARC-MAINNET"}
valid_blockchain_any_case(blockchain) ==
    blockchain \in VALID_BLOCKCHAINS \cup {"arc-testnet", "arc-mainnet"}
valid_blockchain(blockchain) == blockchain \in VALID_BLOCKCHAINS

\* The selectors create_wallet is given: the two of the enumeration, the
\* text of test_invalid_blockchain_raises, the empty string, another case,
\* another network.
Blockchains == VALID_BLOCKCHAINS \cup {"INVALID", "", "arc-testnet", "ETH-SEPOLIA"}

\* What the remote create_wallets call can do: raise, return no wallet
\* (wallets[0] raises IndexError), or return a new wallet.
RemoteWallets ==
    { [raises |-> TRUE,  wallets |-> <<>>],
      [raises |-> FALSE, wallets |-> <<>>],
      [raises |-> FALSE, wallets |-> << [id |-> "w2", address |-> "0xW2"] >>] }
NoRemoteWallet == [raises |-> FALSE, wallets |-> <<>>]

\* What create_wallet returns, or the ValueError it raises; remote_called
\* tells whether client.create_wallets was called.
Created(outcome, id, address, blockchain, mode, remote_called) ==
    [outcome |-> outcome, id |-> id, address |-> address,
     blockchain |-> blockchain, mode |-> mode, remote_called |-> remote_called]

\* CircleWallet._demo_wallet.
demo_wallet(uuid, remote_called) ==
    Created("return", "demo-wallet-001", <<"0xDEMO...", uuid>>, "ARC-TESTNET",
            "demo", remote_called)

\* CircleWallet.create_wallet, start to return: the result, and the wallet
\* it leaves.
create_wallet(blockchain, remote, uuid) ==
    IF ~valid_blockchain(blockchain)
    THEN [result |-> Created("raise", "None", <<>>, blockchain, "ValueError", FALSE),
          wallet |-> wallet]
    ELSE IF ~wallet.client
    THEN [result |-> demo_wallet(uuid, FALSE), wallet |-> wallet]
    ELSE IF remote.raises \/ remote.wallets = <<>>
    THEN [result |-> demo_wallet(uuid, TRUE), wallet |-> wallet]
    ELSE [result |-> Created("return", remote.wallets[1].id,
                             <<remote.wallets[1].address>>, blockchain, "live",
                             TRUE),
          wallet |-> Wallet(wallet.client, remote.wallets[1].id,
                            remote.wallets[1].address)]

\* wallet.create_wallet(blockchain=...) awaited on its own.
CreateWallet ==
    /\ \E blockchain \in Blockchains, uuid \in UuidHex,
          remote \in IF wallet.client THEN RemoteWallets ELSE {NoRemoteWallet} :
          LET made == create_wallet(blockchain, remote, uuid) IN
          /\ applied' = Applied("create_wallet",
                                [blockchain |-> blockchain, remote |-> remote],
                                made.result)
          /\ wallet' = made.wallet
    /\ UNCHANGED <<limiterVars, transactions, base, call_history, did, okCalls,
                   ret, ncalls, wallet_state, conn, inflight, uncommitted,
                   model, nqueries, loop, tasks, session_state>>

\* ============================================================ PAID SERVICE GATEWAY

SERVICE_ADDRESSES ==
    [weather |-> <<"0","x","1","2","3","4","5","6","7","8","9","0","a","b","c","d","e","f","1","2","3","4","5","6","7","8","9","0","a","b","c","d","e","f","1","2","3","4","5","6","7","8">>,
     stock |-> <<"0","x","a","b","c","d","e","f","1","2","3","4","5","6","7","8","9","0","a","b","c","d","e","f","1","2","3","4","5","6","7","8","9","0","a","b","c","d","e","f","1","2">>,
     news |-> <<"0","x","f","e","d","c","b","a","0","9","8","7","6","5","4","3","2","1","f","e","d","c","b","a","0","9","8","7","6","5","4","3","2","1","f","e","d","c","b","a","0","9">>,
     translation |-> <<"0","x","1","1","1","1","1","1","1","1","1","1","1","1","1","1","1","1","1","1","1","1","1","1","1","1","1","1","1","1","1","1","1","1","1","1","1","1","1","1","1","1">>]

\* SERVICE_COSTS in thousandths of a USDC.
SERVICE_COSTS == [weather |-> 1, stock |-> 2, news |-> 3, translation |-> 5]

MAX_PARAM_LEN == 200
LongLen == 500

\* A parameter value: a str (its characters) or a value of another type.
Str(cs) == [isstr |-> TRUE, chars |-> cs]
NonStr == [isstr |-> FALSE, chars |-> <<>>]

\* Character classes of the pattern [^\w\s.,!?'-].  A control character with
\* no escape of its own is written by its ASCII name: NUL is \x00, ESC is
\* \x1b, US is \x1f.  \s matches str.isspace() characters: space, \t, \n,
\* \r, \f, \v and \x1c to \x1f among the ASCII ones.
\* The ASCII letters, each lower-case letter at the index of its upper case.
Lowers ==
    <<"a", "b", "c", "d", "e", "f", "g", "h", "i", "j", "k", "l",
      "m", "n", "o", "p", "q", "r", "s", "t", "u", "v", "w", "x", "y", "z">>
Uppers ==
    <<"A", "B", "C", "D", "E", "F", "G", "H", "I", "J", "K", "L",
      "M", "N", "O", "P", "Q", "R", "S", "T", "U", "V", "W", "X", "Y", "Z">>
Range(f) == {f[i] : i \in DOMAIN f}
LowerLetters == Range(Lowers)
UpperLetters == Range(Uppers)
Letters == LowerLetters \cup UpperLetters
IndexOf(c, cs) == CHOOSE i \in DOMAIN cs : cs[i] = c

Digits == {"0", "1", "2", "3", "4", "5", "6", "7", "8", "9"}
WordChars == Letters \cup Digits \cup {"_"}
SpaceChars == {" ", "\t", "\n", "\r", "\f", "US"}
KeptPunct == {".", ",", "!", "?", "'", "-"}
KeptChars == WordChars \cup SpaceChars \cup KeptPunct
Kept(c) == c \in KeptChars

SubSeqTo(s, n) == IF Len(s) <= n THEN s ELSE SubSeq(s, 1, n)

\* PaidAPIService._sanitize: drop every character outside the kept classes,
\* then keep the first _MAX_PARAM_LEN characters.
\* (sanitizeCutFirst: the variant that cuts before it removes.)
sanitizeCutFirst(value) == SelectSeq(SubSeqTo(value, MAX_PARAM_LEN), Kept)
sanitize(value) == SubSeqTo(SelectSeq(value, Kept), MAX_PARAM_LEN)

\* The strings _sanitize is applied to: every string of at most MaxStr
\* characters over SanAlphabet (a letter, markup, whitespace controls and a
\* control character outside \s), and strings around and beyond the length
\* limit, up to the LongLen characters of test_sanitize_truncates_long_input.
SanAlphabet == {"a", "<", "\t", "\n", "\r", "NUL"}
StringsUpTo(n) == UNION {[1..k -> SanAlphabet] : k \in 0..n}
LongInputs ==
    { [i \in 1..LongLen |-> "a"],
      [i \in 1..LongLen |-> IF 2 * i <= LongLen THEN "<" ELSE "a"],
      [i \in 1..LongLen |-> IF i % 2 = 0 THEN "<" ELSE "a"],
      [i \in 1..MAX_PARAM_LEN |-> "a"],
      [i \in 1..(MAX_PARAM_LEN + 1) |-> "a"],
      [i \in 1..(MAX_PARAM_LEN + 1) |-> IF i = 1 THEN "<" ELSE "a"] }
SanitizeInputs == StringsUpTo(MaxStr) \cup LongInputs

\* PaidAPIService._sanitize(value) called on its own (a staticmethod).
Sanitize ==
    /\ \E value \in SanitizeInputs :
          applied' = Applied("_sanitize", value, sanitize(value))
    /\ UNCHANGED <<limiterVars, gatewayVars>>

\* A params dict is its sequence of <<key, value>> items.
Keys(params) == {params[i][1] : i \in 1..Len(params)}
Get(params, k, default) ==
    IF k \in Keys(params)
    THEN params[CHOOSE i \in 1..Len(params) : params[i][1] = k][2]
    ELSE default

\* sanitized_params of call_service: str values sanitized, others untouched.
\* (sanitize_params_skipped: the variant that passes the params on as given.)
sanitize_params_skipped(params) == params
sanitize_params(params) ==
    [i \in 1..Len(params) |->
        <<params[i][1],
          IF params[i][2].isstr THEN Str(sanitize(params[i][2].chars))
                                ELSE params[i][2]>>]

\* str.upper on the characters of the model.
ToUpper == [c \in LowerLetters |-> Uppers[IndexOf(c, Lowers)]]
UpperChar(c) == IF c \in LowerLetters THEN ToUpper[c] ELSE c
Upper(cs) == [i \in 1..Len(cs) |-> UpperChar(cs[i])]

NoResult == [kind |-> "none", echo |-> NonStr, raises |-> FALSE]

\* PaidAPIService._execute_service: the simulated data that echoes a
\* parameter (the random numbers and fixed texts are left out).  symbol.upper()
\* raises AttributeError when the symbol is not a str.
execute_service(service, params) ==
    CASE service = "weather" ->
            [kind |-> "weather", echo |-> Get(params, "city", Str(<<"U","n","k","n","o","w","n">>)),
             raises |-> FALSE]
      [] service = "stock" ->
            LET symbol == Get(params, "symbol", Str(<<"A","A","P","L">>))
            IN  IF symbol.isstr
                THEN [kind |-> "stock", echo |-> Str(Upper(symbol.chars)), raises |-> FALSE]
                ELSE [kind |-> "stock", echo |-> NonStr, raises |-> TRUE]
      [] service = "news" ->
            [kind |-> "news", echo |-> Get(params, "topic", Str(<<"t","e","c","h","n","o","l","o","g","y">>)),
             raises |-> FALSE]
      [] service = "translation" ->
            [kind |-> "translation", echo |-> Get(params, "text", Str(<<>>)),
             raises |-> FALSE]
      [] OTHER -> [kind |-> "error", echo |-> NonStr, raises |-> FALSE]

\* The requests call_service is given, <<service_name, params>>: one per
\* catalog service, a stock request whose symbol is not a str, and a name
\* outside the catalog.
Requests ==
    { <<"weather", << <<"city", Str(<<"T", "<", "o">>)>> >> >>,
      <<"stock", << <<"symbol", Str(<<"a", "b">>)>> >> >>,
      <<"stock", << <<"symbol", NonStr>> >> >>,
      <<"news", <<>> >>,
      <<"translation", << <<"text", Str(<<"h", "\t">>)>> >> >>,
      <<"unknown", <<>> >> }

\* The first two tests of call_service, in the order the code makes them:
\* catalog lookup, then rate_limiter.allow().
\* (GateIgnoresLimiter: the variant that drops allow()'s answer;
\* GateAdmissionFirst: the variant that consults the limiter before the catalog.)
GateIgnoresLimiter(service_name, pruned) ==
    IF service_name \notin DOMAIN SERVICE_COSTS THEN "unknown" ELSE "admitted"
GateAdmissionFirst(service_name, pruned) ==
    IF ~Admits(pruned) THEN "denied"
    ELSE IF service_name \notin DOMAIN SERVICE_COSTS THEN "unknown"
    ELSE "admitted"
Gate(service_name, pruned) ==
    IF service_name \notin DOMAIN SERVICE_COSTS THEN "unknown"
    ELSE IF ~Admits(pruned) THEN "denied"
    ELSE "admitted"

\* The description call_service gives the transfer, built from what is in
\* scope: f"{service_name} API call".
\* (DescriptionWithParams: the variant that puts a parameter name into it.)
DescriptionWithParams(service_name, sanitized_params) ==
    IF sanitized_params = <<>> THEN <<service_name, " API call">>
    ELSE <<service_name, " API call ", sanitized_params[1][1]>>
Description(service_name, sanitized_params) == <<service_name, " API call">>

\* `if not payment.get("success")`.
\* (PaymentAlwaysOk: the variant that goes on after a failed payment.)
PaymentAlwaysOk(payment) == TRUE
PaymentOk(payment) == payment.success

\* The dict call_service returns, or the exception it raises (outcome "raise").
Outcome(outcome, error, service_name, result, cost, tx_hash) ==
    [outcome |-> outcome, error |-> error, service |-> service_name,
     result |-> result, cost_usdc |-> cost, tx_hash |-> tx_hash]

NoOutcome == Outcome("none", "", "", NoResult, 0, <<>>)

\* What one call_service did on its way: the params it was given, whether
\* allow() was evaluated and
\* what it returned, the transfer request made and what the wallet reported,
\* the service function run and the params it was given, and whether the
\* store's INSERT was reached and went through ("done") or raised.
NoTransfer == [made |-> FALSE, to |-> <<>>, amount |-> 0, description |-> <<>>,
               success |-> FALSE, via |-> "none", raised |-> FALSE]
NoExecution == [ran |-> FALSE, service |-> "", params |-> <<>>]
Transfer(to, amount, description, payment) ==
    [made |-> TRUE, to |-> to, amount |-> amount, description |-> description,
     success |-> payment.success, via |-> payment.via,
     raised |-> payment.raised]
Execution(service, params) == [ran |-> TRUE, service |-> service, params |-> params]
Did(given, admission, transfer, execution, insert) ==
    [params |-> given, admission |-> admission, transfer |-> transfer,
     execution |-> execution, insert |-> insert]

\* record_transaction has no handler around conn.execute and call_service has
\* none around record_transaction: when the INSERT raises, both are left by
\* the exception.
\* (insert_swallowed: the variant that carries on after a failed INSERT.)
insert_swallowed(store_fails) == FALSE
insert_raises(store_fails) == store_fails

\* PaidAPIService.call_service, start to return.  remote and uuid are what the
\* wallet's collaborators answer, store_fails tells whether the INSERT raises.
\* allow()'s two clock readings are taken as equal here; SpecRL explores the gap.
call_service(service_name, params, remote, uuid, store_fails) ==
    LET gate == Gate(service_name, prune(calls, now)) IN
    /\ ncalls' = ncalls + 1
    /\ UNCHANGED <<max_calls, period, lastRemaining, allowLog, base, wallet,
                   wallet_state, conn, inflight, uncommitted, model, tasks,
                   session_state>>
    /\ IF gate = "unknown"
       THEN /\ ret' = Outcome("error", "Unknown service", service_name,
                              NoResult, 0, <<>>)
            /\ did' = Did(params, "none", NoTransfer, NoExecution, "none")
            /\ UNCHANGED <<now, calls, transactions, call_history, okCalls>>
       ELSE
       /\ allowStep(now)
       /\ IF gate = "denied"
          THEN /\ ret' = Outcome("error", "Rate limit exceeded", service_name,
                                 NoResult, 0, <<>>)
               /\ did' = Did(params, IF Admits(prune(calls, now)) THEN "allowed" ELSE "denied",
                             NoTransfer, NoExecution, "none")
               /\ UNCHANGED <<transactions, call_history, okCalls>>
          ELSE
          LET admission == IF Admits(prune(calls, now)) THEN "allowed" ELSE "denied"
              sanitized_params == sanitize_params(params)
              cost == SERVICE_COSTS[service_name]
              address == SERVICE_ADDRESSES[service_name]
              description == Description(service_name, sanitized_params)
              payment == transfer_usdc(address, cost, description, remote, uuid)
              transfer == Transfer(address, cost, description, payment)
              result == execute_service(service_name, sanitized_params)
              execution == Execution(service_name, sanitized_params)
              insert == IF store_fails THEN "raised" ELSE "done"
          IN
          IF ~PaymentOk(payment)
          THEN /\ ret' = Outcome("error", "Payment failed", service_name,
                                 NoResult, 0, <<>>)
               /\ did' = Did(params, admission, transfer, NoExecution, "none")
               /\ UNCHANGED <<transactions, call_history, okCalls>>
          ELSE IF result.raises
          THEN /\ ret' = Outcome("raise", "service", service_name,
                                 NoResult, 0, <<>>)
               /\ did' = Did(params, admission, transfer, execution, "none")
               /\ UNCHANGED <<transactions, call_history, okCalls>>
          ELSE IF insert_raises(store_fails)
          THEN /\ ret' = Outcome("raise", "store", service_name,
                                 NoResult, 0, <<>>)
               /\ did' = Did(params, admission, transfer, execution, insert)
               /\ UNCHANGED <<transactions, call_history, okCalls>>
          ELSE
          /\ transactions' = record_transaction(transactions, service_name,
                 sanitized_params, cost, payment.tx_hash, result)
          /\ call_history' = Append(call_history,
                 [service |-> service_name, params |-> sanitized_params,
                  cost |-> cost, payment_tx |-> payment.tx_hash,
                  result |-> result])
          /\ okCalls' = Append(okCalls, service_name)
          /\ did' = Did(params, admission, transfer, execution, insert)
          /\ ret' = Outcome("success", "", service_name,
                            result, cost, payment.tx_hash)

CallService ==
    /\ ncalls < MaxOps
    /\ \E req \in Requests, remote \in RemoteOutcomes, uuid \in UuidHex,
          store_fails \in BOOLEAN :
            call_service(req[1], req[2], remote, uuid, store_fails)
    /\ UNCHANGED <<applied, nqueries, loop>>

\* ---- several call_service coroutines of one gateway on one event loop.
\* `await self.wallet.transfer_usdc(...)` is the only await of call_service:
\* whenever the awaited transfer suspends, the event loop runs the other
\* coroutines, each from its start to its own await or from its await to its
\* return.

\* self.rate_limiter._calls when an admitted coroutine reaches the await:
\* allow() has pruned and appended, there is no await inside it.
\* (calls_at_await_unrecorded: the variant whose append comes after the await.)
calls_at_await_unrecorded(cs, tnow) == prune(cs, tnow)
calls_at_await(cs, tnow) == AdmittedCalls(cs, tnow, tnow)

\* A coroutine of call_service from its await on: its locals, the clock
\* reading at which it was admitted and its transfer requested (at), where
\* it stands (pc), and once it returned what the wallet reported (paid) and
\* the id of the row it wrote (record, 0 for none).
Coroutine(service_name, params, sanitized_params, at) ==
    [pc |-> "awaiting", service |-> service_name, params |-> params,
     sanitized_params |-> sanitized_params,
     cost |-> SERVICE_COSTS[service_name],
     address |-> SERVICE_ADDRESSES[service_name], at |-> at,
     paid |-> FALSE, record |-> 0]
Finished(task, paid, record) ==
    [task EXCEPT !.pc = "done", !.paid = paid, !.record = record]

\* call_service from its start to the await, or to its return when the
\* service is unknown or the limiter denies the call.
begin_call(service_name, params) ==
    LET gate == Gate(service_name, prune(calls, now)) IN
    /\ ncalls' = ncalls + 1
    /\ UNCHANGED <<now, max_calls, period, lastRemaining, allowLog, base,
                   wallet, wallet_state, conn, inflight, uncommitted, model,
                   session_state, transactions, call_history, okCalls,
                   applied, nqueries, loop>>
    /\ IF gate = "unknown"
       THEN /\ ret' = Outcome("error", "Unknown service", service_name,
                              NoResult, 0, <<>>)
            /\ did' = Did(params, "none", NoTransfer, NoExecution, "none")
            /\ UNCHANGED <<calls, tasks>>
       ELSE IF gate = "denied"
       THEN /\ ret' = Outcome("error", "Rate limit exceeded", service_name,
                              NoResult, 0, <<>>)
            /\ did' = Did(params, "denied", NoTransfer, NoExecution, "none")
            /\ calls' = DeniedCalls(calls, now)
            /\ UNCHANGED tasks
       ELSE /\ calls' = calls_at_await(calls, now)
            /\ tasks' = Append(tasks, Coroutine(service_name, params,
                                                sanitize_params(params), now))
            /\ UNCHANGED <<ret, did>>

\* call_service from the await to its return: the wallet reports, then the
\* service function runs and the record is written.
resume_call(i, remote, uuid, store_fails) ==
    LET task == tasks[i]
        description == Description(task.service, task.sanitized_params)
        payment == transfer_usdc(task.address, task.cost, description, remote, uuid)
        transfer == Transfer(task.address, task.cost, description, payment)
        result == execute_service(task.service, task.sanitized_params)
        execution == Execution(task.service, task.sanitized_params)
        insert == IF store_fails THEN "raised" ELSE "done"
    IN
    /\ task.pc = "awaiting"
    /\ UNCHANGED <<limiterVars, base, wallet, wallet_state, conn, inflight,
                   uncommitted, model, session_state, ncalls, applied,
                   nqueries, loop>>
    /\ IF ~PaymentOk(payment)
       THEN /\ ret' = Outcome("error", "Payment failed", task.service,
                              NoResult, 0, <<>>)
            /\ did' = Did(task.params, "allowed", transfer, NoExecution, "none")
            /\ tasks' = [tasks EXCEPT ![i] = Finished(task, FALSE, 0)]
            /\ UNCHANGED <<transactions, call_history, okCalls>>
       ELSE IF result.raises
       THEN /\ ret' = Outcome("raise", "service", task.service, NoResult, 0, <<>>)
            /\ did' = Did(task.params, "allowed", transfer, execution, "none")
            /\ tasks' = [tasks EXCEPT ![i] = Finished(task, TRUE, 0)]
            /\ UNCHANGED <<transactions, call_history, okCalls>>
       ELSE IF insert_raises(store_fails)
       THEN /\ ret' = Outcome("raise", "store", task.service, NoResult, 0, <<>>)
            /\ did' = Did(task.params, "allowed", transfer, execution, insert)
            /\ tasks' = [tasks EXCEPT ![i] = Finished(task, TRUE, 0)]
            /\ UNCHANGED <<transactions, call_history, okCalls>>
       ELSE
       /\ transactions' = record_transaction(transactions, task.service,
              task.sanitized_params, task.cost, payment.tx_hash, result)
       /\ call_history' = Append(call_history,
              [service |-> task.service, params |-> task.sanitized_params,
               cost |-> task.cost, payment_tx |-> payment.tx_hash,
               result |-> result])
       /\ okCalls' = Append(okCalls, task.service)
       /\ did' = Did(task.params, "allowed", transfer, execution, insert)
       /\ ret' = Outcome("success", "", task.service, result, task.cost,
                         payment.tx_hash)
       /\ tasks' = [tasks EXCEPT ![i] = Finished(task, TRUE, Len(transactions'))]

\* The requests of the coroutines: two services whose calls can be told
\* apart in the log.
TaskRequests == {req \in Requests : req[1] \in {"weather", "news"}}
BeginCall ==
    /\ ncalls < MaxCoroutines
    /\ \E req \in TaskRequests : begin_call(req[1], req[2])

ResumeCall ==
    \E i \in DOMAIN tasks, remote \in RemoteOutcomes,
       uuid \in UuidHex, store_fails \in BOOLEAN :
         resume_call(i, remote, uuid, store_fails)

\* The destinations transfer_usdc is given on its own: catalog addresses,
\* upper-case hex digits, and strings that are not 0x plus 40 hex digits (the
\* text of test_transfer_invalid_address, the empty string, a digit short or
\* long, a letter outside hex, a wrong prefix, white space around an address).
Hex40 == SubSeq(SERVICE_ADDRESSES.weather, 3, 42)
AddressInputs ==
    { SERVICE_ADDRESSES.weather,
      SERVICE_ADDRESSES.translation,
      <<"0", "x">> \o [i \in 1..40 |-> IF i % 2 = 0 THEN "A" ELSE "F"],
      <<"n","o","t","-","a","-","v","a","l","i","d","-","a","d","d","r","e","s","s">>,
      <<>>,
      <<"0", "x">> \o SubSeq(Hex40, 1, 39),
      <<"0", "x">> \o Hex40 \o <<"0">>,
      <<"0", "x">> \o SubSeq(Hex40, 1, 39) \o <<"g">>,
      <<"0", "X">> \o Hex40,
      Hex40 \o <<"0", "x">>,
      <<" ", "0", "x">> \o Hex40,
      <<"0", "x">> \o Hex40 \o <<" ">>,
      <<"0", "x">> \o Hex40 \o <<"\n">>,
      <<"0", "x">> \o Hex40 \o <<"\n", "\n">> }

\* The amounts it is given, in thousandths of a USDC.
AmountInputs == (0 - MaxAmount)..MaxAmount

\* CircleWallet.transfer_usdc(to_address, amount, "test") called on its own.
TransferUsdc ==
    /\ \E to_address \in AddressInputs, amount \in AmountInputs,
          remote \in RemoteOutcomes, uuid \in UuidHex :
            applied' = Applied("transfer_usdc",
                               [to_address |-> to_address, amount |-> amount],
                               transfer_usdc(to_address, amount, <<"test">>,
                                             remote, uuid))
    /\ UNCHANGED <<limiterVars, gatewayVars>>

\* The store driven directly, as its unit tests drive it.
StateKeys == {"wallet_id", "wallet_address"}
StateValues == {"w-123", "w-456"}
Defaults == {"", "default"}

\* store.record_transaction("svc", {}, cost, "0xf", {}); returns lastrowid.
RecordTransaction ==
    /\ Len(transactions) < MaxRows
    /\ \E cost \in 0..MaxCost :
          /\ transactions' = record_transaction(transactions, "svc", <<>>, cost,
                                                <<"0xf">>, NoResult)
          /\ applied' = Applied("record_transaction", <<cost>>,
                                Len(transactions) + 1)
    /\ conn' = "open"
    /\ UNCHANGED <<limiterVars, serviceVars, wallet_state>>

GetRecentTransactions ==
    /\ \E limit \in 0..MaxLimit :
          applied' = Applied("get_recent_transactions", <<limit>>,
                             get_recent_transactions(transactions, limit))
    /\ conn' = "open"
    /\ UNCHANGED <<limiterVars, serviceVars, transactions, wallet_state>>

GetTotalSpent ==
    /\ applied' = Applied("get_total_spent", <<>>, get_total_spent(transactions))
    /\ conn' = "open"
    /\ UNCHANGED <<limiterVars, serviceVars, transactions, wallet_state>>

SetState ==
    /\ \E key \in StateKeys, value \in StateValues :
          /\ wallet_state' = set_state(wallet_state, key, value)
          /\ applied' = Applied("set_state", <<key, value>>, "None")
    /\ conn' = "open"
    /\ UNCHANGED <<limiterVars, serviceVars, transactions>>

GetState ==
    /\ \E key \in StateKeys, default \in Defaults :
          applied' = Applied("get_state", <<key, default>>,
                             get_state(wallet_state, key, default))
    /\ conn' = "open"
    /\ UNCHANGED <<limiterVars, serviceVars, transactions, wallet_state>>

\* TransactionStore.close: closes the connection if there is one.
Close ==
    /\ conn' = "closed"
    /\ applied' = Applied("close", <<>>, "None")
    /\ UNCHANGED <<limiterVars, serviceVars, transactions, wallet_state>>

\* TransactionStore(db_path) on the path of the store: connects and runs
\* _ensure_schema on a file that holds both tables.  (The history keeps
\* whether the connection before it was open or closed.)
Open ==
    /\ transactions' = ensure_schema(TRUE, transactions, <<>>)
    /\ wallet_state' = ensure_schema(TRUE, wallet_state, {})
    /\ conn' = "open"
    /\ applied' = Applied("TransactionStore", <<conn>>, "None")
    /\ UNCHANGED <<limiterVars, serviceVars>>

\* Sessions that share one TransactionStore instance.  The first two are
\* coroutines on the thread that made the store, the others run on a thread of
\* their own.
Sessions == 1..MaxSessions
ThreadOf(s) == IF s <= 2 THEN "main" ELSE "worker"

\* sqlite3.connect(db_path) in _get_conn leaves check_same_thread at its
\* default: the connection made by __init__ on the main thread raises
\* ProgrammingError when another thread uses it.
SameThread(s) == ThreadOf(s) = "main"

\* Whether a session can be suspended at a point of a store operation: the
\* operations are plain functions with no await and take no lock, so a
\* coroutine is never suspended inside one.
Suspends(point) == FALSE

\* What a store operation hands its caller: a value, or an exception.
Returned(value) == [raised |-> FALSE, value |-> value]
Raised == [raised |-> TRUE, value |-> 0]

\* Session s runs store.record_transaction("svc", {}, cost, "0xf", {}) up to
\* its next suspension point, or to its end: INSERT on the shared connection,
\* then commit, which commits every uncommitted row of the connection.
SessionRecord(s) ==
    /\ Len(transactions) + Len(uncommitted) < MaxRows \/ inflight[s] = "inserted"
    /\ \E cost \in 1..MaxCost :
          LET all == transactions \o uncommitted
              inserted == record_transaction(all, "svc", <<>>, cost, <<"0xf">>,
                                             NoResult)
          IN  IF ~SameThread(s)
              THEN /\ applied' = Applied("record_transaction", <<s, cost>>, Raised)
                   /\ UNCHANGED <<transactions, uncommitted, inflight>>
              ELSE IF inflight[s] = "inserted"
              THEN /\ transactions' = all
                   /\ uncommitted' = <<>>
                   /\ inflight' = [inflight EXCEPT ![s] = "idle"]
                   /\ applied' = Applied("record_transaction", <<s, cost>>,
                                         Returned(Len(all)))
              ELSE IF Suspends("inserted")
              THEN /\ uncommitted' = SubSeq(inserted, Len(transactions) + 1,
                                            Len(inserted))
                   /\ inflight' = [inflight EXCEPT ![s] = "inserted"]
                   /\ UNCHANGED <<transactions, applied>>
              ELSE /\ transactions' = inserted
                   /\ uncommitted' = <<>>
                   /\ applied' = Applied("record_transaction", <<s, cost>>,
                                         Returned(Len(inserted)))
                   /\ UNCHANGED inflight
    /\ UNCHANGED <<limiterVars, base, call_history, wallet, did, okCalls, ret,
                   ncalls, wallet_state, conn, model, nqueries, loop, tasks,
                   session_state>>

\* Session s runs store.get_recent_transactions(limit): a SELECT on the shared
\* connection, which sees the rows of that connection committed or not.
SessionRead(s) ==
    /\ inflight[s] = "idle"
    /\ \E limit \in 0..MaxLimit :
          applied' = Applied("get_recent_transactions", <<s, limit>>,
              IF SameThread(s)
              THEN Returned(get_recent_transactions(transactions \o uncommitted,
                                                   limit))
              ELSE Raised)
    /\ UNCHANGED <<limiterVars, serviceVars, transactions, wallet_state, conn>>

\* What the remote call can answer when the content of txHash matters too: a
\* transaction whose txHash is still None or empty is one more outcome.
RemoteResponses == RemoteOutcomes \cup {[raises |-> FALSE, txHash |-> <<>>]}

CallServiceLive ==
    /\ ncalls < MaxOps
    /\ \E req \in Requests, remote \in RemoteResponses, uuid \in UuidHex,
          store_fails \in BOOLEAN :
            call_service(req[1], req[2], remote, uuid, store_fails)
    /\ UNCHANGED <<applied, nqueries, loop>>

\* ============================================================ ORCHESTRATOR

\* AgenticOrchestrator._QUERY_MAX_LEN.
QUERY_MAX_LEN == 500

\* The keywords the two routing functions look for.
KW_weather == <<"w", "e", "a", "t", "h", "e", "r">>
KW_stock == <<"s", "t", "o", "c", "k">>
KW_price == <<"p", "r", "i", "c", "e">>
KW_ticker == <<"t", "i", "c", "k", "e", "r">>
KW_news == <<"n", "e", "w", "s">>
KW_balance == <<"b", "a", "l", "a", "n", "c", "e">>
KW_wallet == <<"w", "a", "l", "l", "e", "t">>
KW_history == <<"h", "i", "s", "t", "o", "r", "y">>

\* str.lower().
ToLower == [c \in UpperLetters |-> Lowers[IndexOf(c, Uppers)]]
LowerChar(c) == IF c \in UpperLetters THEN ToLower[c] ELSE c
Lower(cs) == [i \in 1..Len(cs) |-> LowerChar(cs[i])]

\* `kw in s`: kw occurs in s as a substring.
In(kw, s) ==
    \E i \in 1..(Len(s) - Len(kw) + 1) :
        \A k \in 1..Len(kw) : s[i + k - 1] = kw[k]

\* str.strip() leaves nothing: every character is white space.
Blank(s) == \A i \in DOMAIN s : s[i] \in SpaceChars

\* str.split(): the maximal runs of characters that are not white space, in
\* the order they start.
WordStarts(s) == {i \in DOMAIN s : s[i] \notin SpaceChars
                                    /\ (i = 1 \/ s[i - 1] \in SpaceChars)}
WordEnds(s) == {j \in DOMAIN s : s[j] \notin SpaceChars
                                  /\ (j = Len(s) \/ s[j + 1] \in SpaceChars)}
Nth(S, k) == CHOOSE i \in S : Cardinality({j \in S : j < i}) = k - 1
SplitAt(s, starts, ends) ==
    [k \in 1..Cardinality(starts) |-> SubSeq(s, Nth(starts, k), Nth(ends, k))]
Split(s) == SplitAt(s, WordStarts(s), WordEnds(s))

\* word.strip("?.,!").
StripChars == {"?", ".", ",", "!"}
RECURSIVE LStrip(_)
LStrip(w) == IF w # <<>> /\ Head(w) \in StripChars THEN LStrip(Tail(w)) ELSE w
RECURSIVE RStrip(_)
RStrip(w) == IF w # <<>> /\ w[Len(w)] \in StripChars
             THEN RStrip(SubSeq(w, 1, Len(w) - 1)) ELSE w
Strip(w) == RStrip(LStrip(w))

\* str.isalpha() on ASCII text: not empty and letters only.
IsAlpha(w) == w # <<>> /\ \A i \in DOMAIN w : w[i] \in Letters

\* `for i, word in enumerate(words)`: the first of the indexes that satisfy
\* the test of the loop, or 0.
First(hits) == IF hits = {} THEN 0
               ELSE CHOOSE i \in hits : \A j \in hits : i <= j

\* AgenticOrchestrator._extract_city, from `words = query.split()` on.
\* (city_of_after_preposition: the variant without the second loop.)
CityPrepositions == {<<"i", "n">>, <<"f", "o", "r">>, <<"a", "t">>}
CityStopWords == {<<"w", "h", "a", "t">>, <<"h", "o", "w">>, <<"g", "e", "t">>, <<"c", "h", "e", "c", "k">>, <<"s", "h", "o", "w">>}
city_of_after_preposition(words) ==
    LET AfterPrep(i) == Lower(words[i]) \in CityPrepositions /\ i + 1 <= Len(words)
        p == First({i \in DOMAIN words : AfterPrep(i)})
    IN  IF p # 0 THEN Strip(words[p + 1])
        ELSE <<"M", "u", "m", "b", "a", "i">>
city_of(words) ==
    LET AfterPrep(i) == Lower(words[i]) \in CityPrepositions /\ i + 1 <= Len(words)
        Capitalised(i) == /\ words[i][1] \in UpperLetters
                          /\ Lower(words[i]) \notin CityStopWords
        p == First({i \in DOMAIN words : AfterPrep(i)})
        c == First({i \in DOMAIN words : Capitalised(i)})
    IN  IF p # 0 THEN Strip(words[p + 1])
        ELSE IF c # 0 THEN Strip(words[c])
        ELSE <<"M", "u", "m", "b", "a", "i">>
extract_city(query) == city_of(Split(query))

\* AgenticOrchestrator._extract_symbol, from `words = query.upper().split()` on.
SymbolStopWords == {<<"G", "E", "T">>, <<"S", "T", "O", "C", "K">>, <<"P", "R", "I", "C", "E">>, <<"T", "H", "E">>, <<"W", "H", "A", "T">>, <<"S", "H", "O", "W">>, <<"C", "H", "E", "C", "K">>}
symbol_of(words) ==
    LET Ticker(i) == LET clean == Strip(words[i])
                     IN  /\ 1 <= Len(clean) /\ Len(clean) <= 5
                         /\ IsAlpha(clean)
                         /\ clean \notin SymbolStopWords
        t == First({i \in DOMAIN words : Ticker(i)})
    IN  IF t # 0 THEN Strip(words[t]) ELSE <<"A", "A", "P", "L">>
extract_symbol(query) == symbol_of(Split(Upper(query)))

\* AgenticOrchestrator._extract_topic, from `words = query.lower().split()` on.
TopicPrepositions == {<<"a", "b", "o", "u", "t">>, <<"o", "n">>, <<"f", "o", "r">>}
topic_of(words) ==
    LET AfterPrep(i) == words[i] \in TopicPrepositions /\ i + 1 <= Len(words)
        p == First({i \in DOMAIN words : AfterPrep(i)})
    IN  IF p # 0 THEN Strip(words[p + 1])
        ELSE <<"t", "e", "c", "h", "n", "o", "l", "o", "g", "y">>
extract_topic(query) == topic_of(Split(Lower(query)))

\* What a routing function decides for a query: the paid service it calls
\* with the params it extracted (call "none": no call_service), or the free
\* branch it answers from ("none": the reply is built from call_service's
\* result).
Plan(call, params, free) == [call |-> call, params |-> params, free |-> free]
Paid(service, key, value) == Plan(service, << <<key, Str(value)>> >>, "none")
Free(branch) == Plan("none", <<>>, branch)

\* AgenticOrchestrator._execute_from_ai_response: the branch taken,
\* query_lower being query.lower().
\* (execute_from_ai_response_trusting: the variant that looks for the
\* keywords in the provider's text as well.)
ai_branch(ai_response, query, query_lower) ==
    IF In(KW_weather, query_lower)
    THEN Paid("weather", "city", extract_city(query))
    ELSE IF In(KW_stock, query_lower) \/ In(KW_price, query_lower)
            \/ In(KW_ticker, query_lower)
    THEN Paid("stock", "symbol", extract_symbol(query))
    ELSE IF In(KW_news, query_lower)
    THEN Paid("news", "topic", extract_topic(query))
    ELSE IF In(KW_balance, query_lower) \/ In(KW_wallet, query_lower)
    THEN Free("balance")
    ELSE IF In(KW_history, query_lower)
    THEN Free("history")
    ELSE IF ai_response # <<>> THEN Free("provider") ELSE Free("help")
execute_from_ai_response_trusting(ai_response, query) ==
    ai_branch(ai_response, query, Lower(query \o <<" ">> \o ai_response))
execute_from_ai_response(ai_response, query) ==
    ai_branch(ai_response, query, Lower(query))

\* AgenticOrchestrator._basic_routing: the branch taken, query_lower being
\* query.lower().
\* (basic_routing_paying: the variant whose history branch buys the news
\* before it answers.)
basic_branch(query, query_lower) ==
    IF In(KW_balance, query_lower)
    THEN Free("balance")
    ELSE IF In(KW_weather, query_lower)
    THEN Paid("weather", "city", extract_city(query))
    ELSE IF In(KW_stock, query_lower)
    THEN Paid("stock", "symbol", extract_symbol(query))
    ELSE IF In(KW_news, query_lower)
    THEN Paid("news", "topic", extract_topic(query))
    ELSE IF In(KW_history, query_lower)
    THEN Free("history")
    ELSE Free("try")
basic_routing_paying(query) ==
    IF basic_branch(query, Lower(query)).free = "history"
    THEN Plan("news", << <<"topic", Str(extract_topic(query))>> >>, "history")
    ELSE basic_branch(query, Lower(query))
basic_routing(query) == basic_branch(query, Lower(query))

\* CircleWallet.get_balance: the demo values without a client or a wallet id
\* and when the remote call raises, otherwise the balances the remote service
\* reports.  Amounts are in thousandths.
DEMO_BALANCE == [usdc |-> 10000, native |-> 100]
RemoteBalances == { [raises |-> TRUE,  balances |-> [usdc |-> 0, native |-> 0]],
                    [raises |-> FALSE, balances |-> [usdc |-> 7000, native |-> 100]],
                    [raises |-> FALSE, balances |-> [usdc |-> 0, native |-> 100]] }
\* (get_balance_unguarded: the variant without the try block.)
get_balance_unguarded(remote_balance) ==
    IF ~Live THEN DEMO_BALANCE
    ELSE remote_balance.balances
get_balance(remote_balance) ==
    IF ~Live THEN DEMO_BALANCE
    ELSE IF remote_balance.raises THEN DEMO_BALANCE
    ELSE remote_balance.balances

\* What generate_content can do: raise, or return a response whose text is
\* empty, or names a service.
ProviderOutcomes ==
    { [raises |-> TRUE,  text |-> <<>>],
      [raises |-> FALSE, text |-> <<>>],
      [raises |-> FALSE, text |-> KW_stock] }
NoProvider == [raises |-> FALSE, text |-> <<>>]

\* The string process returns, by the branch that built it and the values it
\* shows, or the exception that leaves it (kind "raise").
Reply(kind, error, echo, cost, text, usdc, total, rows) ==
    [kind |-> kind, error |-> error, echo |-> echo, cost |-> cost,
     text |-> text, usdc |-> usdc, total |-> total, rows |-> rows]
Prompt == Reply("prompt", "", NonStr, 0, <<>>, 0, 0, <<>>)
ServiceReply(result) ==
    IF result.outcome = "success"
    THEN Reply(result.service, "", result.result.echo, result.cost_usdc,
               <<>>, 0, 0, <<>>)
    ELSE IF result.outcome = "raise"
    THEN Reply("raise", result.error, NonStr, 0, <<>>, 0, 0, <<>>)
    ELSE Reply("error", result.error, NonStr, 0, <<>>, 0, 0, <<>>)
FreeReply(branch, ai_response, usdc, log) ==
    CASE branch = "balance" ->
            Reply("balance", "", NonStr, 0, <<>>, usdc, get_total_spent(log), <<>>)
      [] branch = "history" ->
            LET recent == get_recent_transactions(log, 5) IN
            IF recent = <<>>
            THEN Reply("no_transactions", "", NonStr, 0, <<>>, 0, 0, <<>>)
            ELSE Reply("history", "", NonStr, 0, <<>>, 0, 0,
                       [i \in 1..Len(recent) |->
                           <<recent[i].service, recent[i].cost_usdc>>])
      [] branch = "provider" ->
            Reply("provider", "", NonStr, 0, ai_response, 0, 0, <<>>)
      [] OTHER -> Reply(branch, "", NonStr, 0, <<>>, 0, 0, <<>>)

\* The answers of the collaborators process reaches: an answer is drawn only
\* where the call is made and its value is read afterwards (the balance
\* fetched at the start of process is read by the balance branch of
\* _basic_routing alone, the INSERT is reached only after a payment that
\* succeeded).
NoBalance == [raises |-> FALSE, balances |-> DEMO_BALANCE]
NoRemote == [raises |-> FALSE, txHash |-> <<>>]
Answers(made, outcomes, none) == IF made THEN outcomes ELSE {none}

\* wallet.get_balance() awaited on its own, as main() and the unit test do.
GetBalance ==
    /\ \E remote_balance \in Answers(Live, RemoteBalances, NoBalance) :
          applied' = Applied("get_balance", remote_balance,
                             get_balance(remote_balance))
    /\ UNCHANGED <<limiterVars, gatewayVars>>

\* What process does once the branch is known: the call_service it awaits or
\* the free answer.  first_balance and second_balance are what the remote
\* balance call answers each time it is made, remote what the remote
\* create_transaction call answers.
answer(given, plan, ai_response, calls_service, asks_again) ==
    \E first_balance \in Answers(Live /\ ~model /\ plan.free = "balance",
                                 RemoteBalances, NoBalance),
       second_balance \in Answers(Live /\ asks_again, RemoteBalances, NoBalance),
       remote \in Answers(Live /\ calls_service, RemoteOutcomes, NoRemote),
       uuid \in UuidHex :
    \E store_fails \in Answers(calls_service /\ ~remote.raises, BOOLEAN, FALSE) :
         LET usdc == IF asks_again THEN get_balance(second_balance).usdc
                     ELSE get_balance(first_balance).usdc
         IN  IF calls_service
             THEN /\ call_service(plan.call, plan.params, remote, uuid,
                                  store_fails)
                  /\ applied' = Applied("process", given,
                         IF plan.free = "none" THEN ServiceReply(ret')
                         ELSE FreeReply(plan.free, ai_response, usdc,
                                        transactions'))
             ELSE /\ applied' = Applied("process", given,
                         FreeReply(plan.free, ai_response, usdc, transactions))
                  /\ UNCHANGED <<limiterVars, transactions, base,
                                 call_history, wallet, did, okCalls, ret,
                                 ncalls, wallet_state, conn, inflight,
                                 uncommitted, model, tasks, session_state>>

\* AgenticOrchestrator.process, start to return, the call_service it awaits
\* included.  provider is what generate_content does.
route(given, plan, ai_response) ==
    answer(given, plan, ai_response, plan.call # "none",
           model /\ plan.free = "balance")
process(user_query, provider) ==
    /\ nqueries' = nqueries + 1
    /\ IF user_query = <<>> \/ Blank(user_query)
       THEN /\ applied' = Applied("process",
                               [query |-> user_query, provider |-> provider],
                               Prompt)
            /\ UNCHANGED <<limiterVars, transactions, base, call_history,
                           wallet, did, okCalls, ret, ncalls, wallet_state,
                           conn, inflight, uncommitted, model, tasks,
                           session_state>>
       ELSE
       LET query == SubSeqTo(user_query, QUERY_MAX_LEN)
           ai_response == IF provider.raises THEN <<>> ELSE provider.text
       IN  route([query |-> user_query, provider |-> provider],
                 IF model THEN execute_from_ai_response(ai_response, query)
                 ELSE basic_routing(query),
                 ai_response)

\* The queries process is given: every keyword alone, every two keywords
\* together, all of them at once, and the queries of the tests (the empty
\* one, white space, questions with a city, a symbol and a topic, a query
\* without a keyword, a keyword that the cut at QUERY_MAX_LEN breaks).
KeywordSeq == <<KW_weather, KW_stock, KW_price, KW_ticker, KW_news, KW_balance,
                KW_wallet, KW_history>>
RECURSIVE Join(_)
Join(words) == IF words = <<>> THEN <<>>
               ELSE IF Len(words) = 1 THEN words[1]
               ELSE words[1] \o <<" ">> \o Join(Tail(words))
KeywordQueries ==
    {KeywordSeq[i] : i \in DOMAIN KeywordSeq}
      \cup {Join(<<KeywordSeq[p[1]], KeywordSeq[p[2]]>>) :
               p \in {q \in (DOMAIN KeywordSeq) \X (DOMAIN KeywordSeq) : q[1] < q[2]}}
      \cup {Join(KeywordSeq)}
TestQueries ==
    { <<>>,
      <<" ", "\t">>,
      <<"W", "h", "a", "t", "'", "s", " ", "t", "h", "e", " ", "w", "e", "a", "t", "h", "e", "r", " ", "i", "n", " ", "T", "o", "k", "y", "o", "?">>,
      <<"G", "e", "t", " ", "T", "S", "L", "A", " ", "s", "t", "o", "c", "k", " ", "p", "r", "i", "c", "e">>,
      <<"L", "a", "t", "e", "s", "t", " ", "n", "e", "w", "s", " ", "a", "b", "o", "u", "t", " ", "A", "I">>,
      <<"C", "h", "e", "c", "k", " ", "m", "y", " ", "w", "a", "l", "l", "e", "t", " ", "b", "a", "l", "a", "n", "c", "e">>,
      <<"S", "h", "o", "w", " ", "t", "r", "a", "n", "s", "a", "c", "t", "i", "o", "n", " ", "h", "i", "s", "t", "o", "r", "y">>,
      <<"d", "o", " ", "s", "o", "m", "e", "t", "h", "i", "n", "g", " ", "r", "a", "n", "d", "o", "m">>,
      [i \in 1..(QUERY_MAX_LEN - 4) |-> "x"] \o KW_weather }
Queries == KeywordQueries \cup TestQueries

\* The queries the extraction helpers are given on their own: every phrase
\* of at most MaxWords words of a vocabulary that holds the prepositions, a
\* capitalised word with punctuation, stop words, a word too long for a
\* ticker, a word with a digit and a punctuation mark alone; and the queries
\* of the tests.
Vocabulary ==
    << <<"i", "n">>, <<"f", "o", "r">>, <<"a", "b", "o", "u", "t">>,
       <<"T", "o", "k", "y", "o", "?">>, <<"W", "h", "a", "t">>, KW_stock,
       KW_weather, <<"?">>, <<"a", "1">> >>
Phrases ==
    UNION { {Join(ws) : ws \in [1..n -> Range(Vocabulary)]} : n \in 0..MaxWords }
ExtractQueries == Phrases \cup TestQueries

\* What the three helpers return for one query.
Extracted(query) ==
    [city |-> extract_city(query), symbol |-> extract_symbol(query),
     topic |-> extract_topic(query)]

\* _extract_city, _extract_symbol and _extract_topic applied to one query, as
\* TestExtractHelpers applies them to a new orchestrator.
Extract ==
    /\ applied.fn = "none"
    /\ \E query \in ExtractQueries :
          applied' = Applied("extract", query, Extracted(query))
    /\ UNCHANGED <<limiterVars, gatewayVars>>

Process ==
    /\ nqueries < MaxQueries
    /\ \E user_query \in Queries,
          provider \in Answers(model, ProviderOutcomes, NoProvider) :
            process(user_query, provider)
    /\ UNCHANGED loop

\* ============================================================ MAIN LOOP

\* str.strip(): the string without its leading and trailing white space.
str_strip(s) ==
    LET kept == {i \in DOMAIN s : s[i] \notin SpaceChars} IN
    IF kept = {} THEN <<>>
    ELSE SubSeq(s, CHOOSE i \in kept : \A j \in kept : i <= j,
                   CHOOSE i \in kept : \A j \in kept : j <= i)

\* The words that end the session, compared with user_input.lower().
ExitWords == { <<"e", "x", "i", "t">>, <<"q", "u", "i", "t">>, <<"b", "y", "e">> }

\* What input("You: ") does: it returns a line, or raises KeyboardInterrupt
\* (Ctrl-C at the prompt) or EOFError (standard input is closed).
Line(text) == [raises |-> "none", text |-> text]
Interrupt == [raises |-> "KeyboardInterrupt", text |-> <<>>]
EndOfFile == [raises |-> "EOFError", text |-> <<>>]
MainLines ==
    { <<>>, <<" ", "\t">>,
      <<"e", "x", "i", "t">>, <<" ", "Q", "u", "i", "t", " ">>, <<"B", "Y", "E">>,
      <<"b", "y", "e", " ", "b", "y", "e">>,
      KW_weather, KW_stock, KW_balance, KW_history }
InputOutcomes == {Line(text) : text \in MainLines} \cup {Interrupt, EndOfFile}

\* The loop after `await orchestrator.process(user_input)`: the reply is
\* printed when process returned, the `except Exception` clause prints the
\* error when it raised; either way the loop goes on to the next input().
after_process_uncaught(reply) ==
    IF reply.kind = "raise" THEN Loop(FALSE, "traceback")
    ELSE Loop(TRUE, "agent")
after_process(reply) ==
    IF reply.kind = "raise" THEN Loop(TRUE, "error")
    ELSE Loop(TRUE, "agent")

\* store.close() after the loop.
close_store ==
    /\ conn' = "closed"
    /\ UNCHANGED <<limiterVars, transactions, base, call_history, wallet, did,
                   okCalls, ret, ncalls, wallet_state, inflight, uncommitted,
                   model, nqueries, tasks, session_state>>
no_query ==
    UNCHANGED <<limiterVars, transactions, base, call_history, wallet, did,
                okCalls, ret, ncalls, wallet_state, conn, inflight,
                uncommitted, model, nqueries, tasks, session_state>>

\* One turn of the `while True` loop of main(), from input() to the next
\* input() or to the end of main(); the process() it awaits included.
main_loop(read, provider) ==
    /\ loop.running
    /\ IF read.raises = "KeyboardInterrupt"
       THEN /\ loop' = Loop(FALSE, "goodbye")
            /\ applied' = Applied("main", read, "interrupt")
            /\ close_store
       ELSE IF read.raises = "EOFError"
       THEN /\ loop' = Loop(TRUE, "error")
            /\ applied' = Applied("main", read, "error")
            /\ no_query
       ELSE
       LET user_input == str_strip(read.text) IN
       IF user_input = <<>>
       THEN /\ loop' = Loop(TRUE, "none")
            /\ applied' = Applied("main", read, "continue")
            /\ no_query
       ELSE IF Lower(user_input) \in ExitWords
       THEN /\ loop' = Loop(FALSE, "goodbye")
            /\ applied' = Applied("main", read, "exit")
            /\ close_store
       ELSE /\ process(user_input, provider)
            /\ loop' = after_process(applied'.result)

MainLoop ==
    /\ nqueries < MaxInputs
    /\ \E read \in InputOutcomes,
          provider \in Answers(model, ProviderOutcomes, NoProvider) :
            main_loop(read, provider)

\* ============================================================ STREAMLIT APP

\* x >= y on doubles (d is far smaller than M1).
AtLeast(x, y) == x.k > y.k \/ (x.k = y.k /\ x.d >= y.d)

\* The powers of two from 8.0 down to 2^-10 as doubles, with the number of
\* bits of 2^-62 units between neighbouring doubles from that power up to
\* the next: a double in [8, 16) is a multiple of 2^13 units; below 2^-9
\* every multiple of one unit is a double.  (2^-4 and the smaller powers lie
\* between two multiples of 0.001: the entry names the multiple above.)
Below == -1073741824
Binades ==
    << [k |-> 8000, d |-> -768, bits |-> 13], [k |-> 4000, d |-> -384, bits |-> 12],
       [k |-> 2000, d |-> -192, bits |-> 11], [k |-> 1000, d |-> -96, bits |-> 10],
       [k |-> 500, d |-> -48, bits |-> 9], [k |-> 250, d |-> -24, bits |-> 8],
       [k |-> 125, d |-> -12, bits |-> 7], [k |-> 63, d |-> Below, bits |-> 6],
       [k |-> 32, d |-> Below, bits |-> 5], [k |-> 16, d |-> Below, bits |-> 4],
       [k |-> 8, d |-> Below, bits |-> 3], [k |-> 4, d |-> Below, bits |-> 2],
       [k |-> 2, d |-> Below, bits |-> 1] >>
GridBits(x) ==
    LET above == {i \in DOMAIN Binades : AtLeast(x, Binades[i])}
    IN  IF above = {} THEN 0
        ELSE Binades[CHOOSE i \in above : \A j \in above : i <= j].bits

\* x - y on doubles, 0 <= y <= x: the exact difference rounded to the nearest
\* double, ties to the even one.
float_sub(x, y) ==
    LET k == x.k - y.k
        d == x.d - y.d
        bits == GridBits(Double(k, d))
        grid == 2 ^ bits
        twice == (k * M1_MOD + d) % (2 * grid)
        rest == twice % grid
        odd == twice >= grid
    IN  IF bits = 0 THEN Double(k, d)
        ELSE IF 2 * rest < grid \/ (2 * rest = grid /\ ~odd)
        THEN Double(k, d - rest)
        ELSE Double(k, d + grid - rest)

\* app.py process_payment(amount, description): the session state it leaves
\* and what it returns.  (Of a transaction the amount and the description
\* are kept; its time and tx_hash are read from the clock.)
process_payment(state, amount, description) ==
    IF AtLeast(state.wallet_balance, amount)
    THEN [returns |-> TRUE,
          state |-> SessionState(float_sub(state.wallet_balance, amount),
                                 Append(state.transactions,
                                        [amount |-> amount,
                                         description |-> description]),
                                 state.messages)]
    ELSE [returns |-> FALSE, state |-> state]

\* The chat handler for a prompt that names a paid service: the user
\* message, process_payment with the cost of the service, the reply.
paid_query(state, service) ==
    LET paid == process_payment(state, APP_SERVICE_COSTS[service], service)
    IN  [returns |-> paid.returns,
         state |-> [paid.state EXCEPT !.messages = @ + 2]]

\* The session state after n more paid queries for one service.
RECURSIVE AfterQueries(_, _, _)
AfterQueries(state, service, n) ==
    IF n = 0 THEN state
    ELSE IF n = 1 THEN paid_query(state, service).state
    ELSE CHOOSE after \in { AfterQueries(half, service, n - (n \div 2)) :
                              half \in {AfterQueries(state, service, n \div 2)} } :
            TRUE

\* The sessions the app is taken up in: a new one, and sessions in which one
\* service was paid for again and again until the balance is nearly used up.
EarlierQueries ==
    { <<"weather", 0>>, <<"weather", 9999>>, <<"stock", 4998>>,
      <<"news", 3332>> }

PaidQuery ==
    /\ nqueries < MaxPayments
    /\ nqueries' = nqueries + 1
    /\ \E service \in DOMAIN APP_SERVICE_COSTS :
          LET answered == paid_query(session_state, service) IN
          /\ session_state' = answered.state
          /\ applied' = Applied("process_payment", service, answered.returns)
    /\ UNCHANGED <<limiterVars, transactions, base, call_history, wallet, did,
                   okCalls, ret, ncalls, wallet_state, conn, inflight,
                   uncommitted, model, loop, tasks>>

\* The chat handler for any other prompt (balance, history, help): the user
\* message and the reply, no payment.
free_query(state) == [state EXCEPT !.messages = @ + 2]

FreeQuery ==
    /\ nqueries < MaxPayments
    /\ nqueries' = nqueries + 1
    /\ session_state' = free_query(session_state)
    /\ applied' = Applied("chat", <<>>, "None")
    /\ UNCHANGED <<limiterVars, transactions, base, call_history, wallet, did,
                   okCalls, ret, ncalls, wallet_state, conn, inflight,
                   uncommitted, model, loop, tasks>>

\* The "Reset Wallet" button.
ResetWallet ==
    /\ session_state' = InitialSessionState
    /\ applied' = Applied("reset", <<>>, "None")
    /\ UNCHANGED <<limiterVars, transactions, base, call_history, wallet, did,
                   okCalls, ret, ncalls, wallet_state, conn, inflight,
                   uncommitted, model, nqueries, loop, tasks>>

\* ============================================================ SPECIFICATIONS

\* A row written by an earlier run of the program.
OldRow == [id |-> 1, service |-> "news", params |-> <<>>, cost_usdc |-> 3,
           tx_hash |-> <<"0xDEMO", "a0">>,
           result |-> [kind |-> "news",
                       echo |-> Str(<<"t","e","c","h","n","o","l","o","g","y">>),
                       raises |-> FALSE]]

\* The state after RateLimiter(max_calls, period_seconds), TransactionStore(path)
\* on a new or an existing file, CircleWallet() and PaidAPIService(...).
Init ==
    /\ now = 0
    /\ max_calls \in 0..MaxCallsCfg
    /\ period = GwPeriod
    /\ calls = <<>>
    /\ allowLog = <<>>
    /\ lastRemaining = max_calls
    /\ transactions \in {<<>>, <<OldRow>>}
    /\ base = Len(transactions)
    /\ call_history = <<>>
    /\ wallet \in { Wallet(FALSE, "None", "None"),
                    Wallet(TRUE, "None", "None"),
                    Wallet(TRUE, "w1", "0xW1") }
    /\ did = Did(<<>>, "none", NoTransfer, NoExecution, "none")
    /\ okCalls = <<>>
    /\ ret = NoOutcome
    /\ ncalls = 0
    /\ applied = NotApplied
    /\ wallet_state = {}
    /\ conn = "open"
    /\ inflight = [s \in Sessions |-> "idle"]
    /\ uncommitted = <<>>
    /\ model = FALSE
    /\ nqueries = 0
    /\ loop = Reading
    /\ tasks = <<>>
    /\ session_state = InitialSessionState

TickGw == Advance(GwMaxTime)

\* The gateway: queries are served one at a time while the clock advances.
Next == TickGw \/ CallService

Spec == Init /\ [][Next]_vars

\* The rate limiter on its own, driven directly as its unit tests drive it:
\* RateLimiter(max_calls, period_seconds) with max_calls >= 0 and a positive
\* time span.
InitRL ==
    /\ now = 0
    /\ max_calls \in 0..MaxCallsCfg
    /\ period \in 1..MaxPeriod
    /\ calls = <<>>
    /\ allowLog = <<>>
    /\ lastRemaining = max_calls
    /\ transactions = <<>>
    /\ base = 0
    /\ call_history = <<>>
    /\ wallet = Wallet(FALSE, "None", "None")
    /\ did = Did(<<>>, "none", NoTransfer, NoExecution, "none")
    /\ okCalls = <<>>
    /\ ret = NoOutcome
    /\ ncalls = 0
    /\ applied = NotApplied
    /\ wallet_state = {}
    /\ conn = "open"
    /\ inflight = [s \in Sessions |-> "idle"]
    /\ uncommitted = <<>>
    /\ model = FALSE
    /\ nqueries = 0
    /\ loop = Reading
    /\ tasks = <<>>
    /\ session_state = InitialSessionState

NextRL == Tick \/ allow \/ readRemaining

SpecRL == InitRL /\ [][NextRL]_vars

\* _sanitize on its own, applied to one string after another.
InitSan == InitRL /\ max_calls = MaxCallsCfg /\ period = MaxPeriod

NextSan == Sanitize

SpecSan == InitSan /\ [][NextSan]_vars

\* The wallet on its own, in each of its modes, given one transfer after
\* another as its unit tests give them.
InitWallet ==
    /\ Init
    /\ max_calls = MaxCallsCfg
    /\ transactions = <<>>

NextWallet == TransferUsdc

SpecWallet == InitWallet /\ [][NextWallet]_vars

\* The gateway on a live wallet and a new store, the remote service answering
\* with any of RemoteResponses.
InitLive ==
    /\ Init
    /\ Live
    /\ max_calls = MaxCallsCfg
    /\ transactions = <<>>

NextLive == TickGw \/ CallServiceLive

SpecLive == InitLive /\ [][NextLive]_vars

\* The store on its own, on a new file.
InitStore ==
    /\ InitWallet
    /\ ~wallet.client

NextStore == \/ RecordTransaction \/ GetRecentTransactions \/ GetTotalSpent
             \/ SetState \/ GetState \/ Close \/ Open

SpecStore == InitStore /\ [][NextStore]_vars

\* One store shared by several sessions, each recording and reading.
NextShared == \E s \in Sessions : SessionRecord(s) \/ SessionRead(s)

SpecShared == InitStore /\ [][NextShared]_vars

\* The orchestrator over the gateway: AgenticOrchestrator(wallet, api_service)
\* with or without a completion provider, the wallet in demo or live mode, on
\* a new or an existing store; queries are processed one at a time.
InitOrch ==
    /\ now = 0
    /\ max_calls = MaxCallsCfg
    /\ period = GwPeriod
    /\ calls = <<>>
    /\ allowLog = <<>>
    /\ lastRemaining = max_calls
    /\ transactions \in {<<>>, <<OldRow>>}
    /\ base = Len(transactions)
    /\ call_history = <<>>
    /\ wallet \in { Wallet(FALSE, "None", "None"),
                    Wallet(TRUE, "w1", "0xW1") }
    /\ did = Did(<<>>, "none", NoTransfer, NoExecution, "none")
    /\ okCalls = <<>>
    /\ ret = NoOutcome
    /\ ncalls = 0
    /\ applied = NotApplied
    /\ wallet_state = {}
    /\ conn = "open"
    /\ inflight = [s \in Sessions |-> "idle"]
    /\ uncommitted = <<>>
    /\ model \in BOOLEAN
    /\ nqueries = 0
    /\ loop = Reading
    /\ tasks = <<>>
    /\ session_state = InitialSessionState

NextOrch == Process

SpecOrch == InitOrch /\ [][NextOrch]_vars

\* The Streamlit app: one browser session, paid queries and resets.
InitApp ==
    /\ now = 0
    /\ max_calls = MaxCallsCfg
    /\ period = GwPeriod
    /\ calls = <<>>
    /\ allowLog = <<>>
    /\ lastRemaining = max_calls
    /\ transactions = <<>>
    /\ base = 0
    /\ call_history = <<>>
    /\ wallet = Wallet(FALSE, "None", "None")
    /\ did = Did(<<>>, "none", NoTransfer, NoExecution, "none")
    /\ okCalls = <<>>
    /\ ret = NoOutcome
    /\ ncalls = 0
    /\ applied = NotApplied
    /\ wallet_state = {}
    /\ conn = "open"
    /\ inflight = [s \in Sessions |-> "idle"]
    /\ uncommitted = <<>>
    /\ model = FALSE
    /\ nqueries = 0
    /\ loop = Reading
    /\ tasks = <<>>
    /\ session_state \in {AfterQueries(InitialSessionState, e[1], e[2]) :
                             e \in EarlierQueries}

NextApp == PaidQuery \/ FreeQuery \/ ResetWallet

SpecApp == InitApp /\ [][NextApp]_vars

\* One gateway on a live wallet called by several coroutines of one event
\* loop while the clock advances.
NextTasks == TickGw \/ BeginCall \/ ResumeCall

InitTasks == InitLive

SpecTasks == InitTasks /\ [][NextTasks]_vars

\* The extraction helpers on their own, applied to any one query.
NextExtract == Extract

SpecExtract == InitSan /\ [][NextExtract]_vars

\* The wallet on its own, wallets created between its transfers.
NextCreate == CreateWallet \/ TransferUsdc

SpecCreate == InitWallet /\ [][NextCreate]_vars

\* The wallet's balance read between the calls of the gateway.
NextBalance == GetBalance \/ CallService

SpecBalance == InitWallet /\ [][NextBalance]_vars

\* The interactive session: main() after its set-up, the wallet made (or not)
\* and the limiter with any capacity, reading one input after another.
InitMain ==
    /\ now = 0
    /\ max_calls \in 0..MaxCallsCfg
    /\ period = GwPeriod
    /\ calls = <<>>
    /\ allowLog = <<>>
    /\ lastRemaining = max_calls
    /\ transactions \in {<<>>, <<OldRow>>}
    /\ base = Len(transactions)
    /\ call_history = <<>>
    /\ wallet \in { Wallet(FALSE, "None", "None"),
                    Wallet(TRUE, "None", "None"),
                    Wallet(TRUE, "w1", "0xW1") }
    /\ did = Did(<<>>, "none", NoTransfer, NoExecution, "none")
    /\ okCalls = <<>>
    /\ ret = NoOutcome
    /\ ncalls = 0
    /\ applied = NotApplied
    /\ wallet_state = {}
    /\ conn = "open"
    /\ inflight = [s \in Sessions |-> "idle"]
    /\ uncommitted = <<>>
    /\ model \in BOOLEAN
    /\ nqueries = 0
    /\ loop = Reading
    /\ tasks = <<>>
    /\ session_state = InitialSessionState

NextMain == MainLoop

SpecMain == InitMain /\ [][NextMain]_vars

\* ============================================================ HISTORY READERS


\* allow() evaluations that returned True, by position in allowLog.
Allowed == {i \in DOMAIN allowLog : allowLog[i].ok}

\* Allowed calls before evaluation i that are less than period old when
\* evaluation i reads the clock.
LiveBefore(i) ==
    {j \in Allowed : j < i /\ allowLog[i].at - allowLog[j].t < period}

\* Allowed calls less than period old at time tnow.
InWindow(tnow) == {j \in Allowed : tnow - allowLog[j].t < period}

\* allow() evaluations whose time lies in the window [s, s + period).
CallsIn(s) == {i \in DOMAIN allowLog :
                  s <= allowLog[i].t /\ allowLog[i].t < s + period}

\* A step that evaluated allow(), and what it returned.
AllowEvaluated == Len(allowLog') = Len(allowLog) + 1
AllowReturned == allowLog'[Len(allowLog')].ok

\* ============================================================ GATEWAY CLAIMS

\* A step that is one call_service invocation.
Called == ncalls' = ncalls + 1

\* The invocation consulted the limiter, and what allow() returned.
Admitted == did'.admission = "allowed"
Denied == did'.admission = "denied"

\* The invocation attempted a wallet transfer, and what the transfer reported.
Transferred == did'.transfer.made
TransferSucceeded == Transferred /\ did'.transfer.success
TransferFailed == Transferred /\ ~did'.transfer.success

\* The invocation wrote a record; ran the service function.
Recorded == Len(transactions') = Len(transactions) + 1
Executed == did'.execution.ran

\* Recorded timestamps less than period old at time tnow.
LiveCalls(tnow) == {i \in DOMAIN calls : tnow - calls[i] < period}

Known(service_name) == service_name \in DOMAIN SERVICE_COSTS

\* C1 as stated: however a call_service invocation ends, it leaves a record
\* for that call in the store if and only if its transfer reported success.
C1_RecordIffPaid ==
    [][Called => (Recorded <=> TransferSucceeded)]_vars

\* C2: when the transfer reports failure, call_service returns the
\* 'Payment failed' error result, runs no service function, writes no record
\* and appends nothing to call_history; every execution of a service function
\* follows, in the same call, a transfer that reported success.
C2_FailedPaymentStops ==
    [][Called =>
          /\ TransferFailed =>
                /\ ret'.outcome = "error" /\ ret'.error = "Payment failed"
                /\ ~Executed
                /\ transactions' = transactions
                /\ call_history' = call_history
          /\ Executed => TransferSucceeded]_vars

\* C2 witness: a call whose transfer failed has returned.
C2_Witness ==
    /\ ret.error = "Payment failed"
    /\ did.transfer.made /\ ~did.transfer.success
    /\ did.transfer.via = "remote"

\* C3: a call the limiter denies returns the rate-limit error, attempts no
\* transfer, runs no service function and writes no record; with max_calls = 1
\* a call for a catalog service made while the previous admitted call is still
\* inside the window gets the rate-limit error, and a call that finds a free
\* slot (simulated wallet) is served, not refused with an error result.
C3_DeniedCallDoesNothing ==
    [][Called =>
          /\ Denied =>
                /\ ret'.outcome = "error" /\ ret'.error = "Rate limit exceeded"
                /\ ~Transferred
                /\ ~Executed
                /\ transactions' = transactions
                /\ call_history' = call_history
          /\ ret'.error = "Rate limit exceeded" => Denied
          /\ (/\ max_calls = 1 /\ Known(ret'.service)
              /\ \E i \in DOMAIN calls : now - calls[i] < period) =>
                ret'.error = "Rate limit exceeded"
          /\ (/\ Known(ret'.service) /\ ~Live
              /\ Cardinality(LiveCalls(now)) < max_calls) =>
                ret'.outcome \in {"success", "raise"}]_vars

\* C3 witness: max_calls = 1, the first of two calls succeeded and the second,
\* made within the window, got the rate-limit error.
C3_Witness ==
    /\ max_calls = 1
    /\ ncalls = 2
    /\ Len(okCalls) = 1
    /\ ret.error = "Rate limit exceeded"
    /\ did.admission = "denied"

\* C4: a call for a name outside the catalog returns the unknown-service
\* error and changes nothing: not the limiter's recorded calls or remaining,
\* not the transfers, the transaction log or call_history; also when the
\* limiter is exhausted.
C4_UnknownServiceChangesNothing ==
    [][(Called /\ ~Known(ret'.service)) =>
          /\ ret'.outcome = "error" /\ ret'.error = "Unknown service"
          /\ calls' = calls /\ now' = now
          /\ did'.admission = "none"
          /\ remaining(calls', now') = remaining(calls, now)
          /\ ~Transferred
          /\ ~Executed
          /\ transactions' = transactions
          /\ call_history' = call_history]_vars

\* C4 witness: an unknown-service error was returned while the limiter was
\* exhausted.
C4_Witness ==
    /\ ret.error = "Unknown service"
    /\ max_calls > 0
    /\ Cardinality(LiveCalls(now)) = max_calls

RECURSIVE CatalogSum(_)
CatalogSum(names) == IF names = <<>> THEN 0
                     ELSE SERVICE_COSTS[names[1]] + CatalogSum(Tail(names))

\* What the store held at construction.
BaseLog == SubSeq(<<OldRow>>, 1, base)

\* C5: a call that returns success=true has written exactly one record, for
\* the requested service at its catalog cost; after K successful calls among
\* any others the store holds K more records than at the start and
\* get_total_spent has grown by the sum of their catalog costs.
C5_OneRecordPerSuccess ==
    /\ [](/\ Len(transactions) = base + Len(okCalls)
          /\ get_total_spent(transactions) =
                get_total_spent(BaseLog) + CatalogSum(okCalls))
    /\ [][Called =>
            /\ (ret'.outcome = "success") <=> (okCalls' # okCalls)
            /\ ret'.outcome = "success" =>
                  /\ Recorded
                  /\ SubSeq(transactions', 1, Len(transactions)) = transactions
                  /\ transactions'[Len(transactions')].service = ret'.service
                  /\ transactions'[Len(transactions')].cost_usdc =
                        SERVICE_COSTS[ret'.service]
                  /\ ret'.cost_usdc = SERVICE_COSTS[ret'.service]
                  /\ okCalls' = Append(okCalls, ret'.service)
            /\ ret'.outcome # "success" => transactions' = transactions]_vars

\* C5 witness: two calls have succeeded and one has not, on a store that
\* already held a record.
C5_Witness ==
    /\ base = 1
    /\ ncalls = 3
    /\ Len(okCalls) = 2
    /\ okCalls[1] # okCalls[2]
    /\ Len(transactions) = 3

\* C6: a call for a catalog service whose payment fails writes no record but
\* has consumed one limiter slot (remaining is one lower); unknown-service and
\* denied calls consume none.
C6_FailedPaymentConsumesSlot ==
    [][Called =>
          /\ TransferFailed =>
                /\ transactions' = transactions
                /\ Admitted
                /\ remaining(calls', now') = remaining(calls, now) - 1
          /\ ret'.error \in {"Unknown service", "Rate limit exceeded"} =>
                remaining(calls', now') = remaining(calls, now)]_vars

\* C6 witness: a payment has failed, no record was written, and the slot the
\* call consumed leaves the limiter exhausted.
C6_Witness ==
    /\ ret.error = "Payment failed"
    /\ transactions = BaseLog
    /\ max_calls > 0
    /\ remaining(calls, now) = 0

\* ============================================================ RATE LIMITER CLAIMS

\* C7 as stated: in every window [s, s + period), the first max_calls allow()
\* calls made in it return True and every later call made in it returns False.
C7_FirstNOfAnyWindow ==
    \A s \in 0..MaxTime : \A i \in CallsIn(s) :
        allowLog[i].ok <=>
            Cardinality({j \in CallsIn(s) : j <= i}) <= max_calls

\* C7 (amended): allow() returns True exactly when fewer than max_calls of the
\* calls allowed before it are less than period old at the time of the call
\* (so with max_calls live calls recorded the next call is denied), and no
\* window [s, s + period) ever contains more than max_calls allowed calls.
C7_SlidingWindow ==
    /\ \A i \in DOMAIN allowLog :
          allowLog[i].ok <=> Cardinality(LiveBefore(i)) < max_calls
    /\ \A s \in 0..MaxTime :
          Cardinality(CallsIn(s) \cap Allowed) <= max_calls

\* C7 witness: a full limiter denied a call, and later, the oldest call having
\* expired, allowed one again.
C7_Witness ==
    /\ max_calls = 2
    /\ \E i, j, k \in DOMAIN allowLog :
          /\ i < j /\ j < k
          /\ allowLog[i].ok /\ ~allowLog[j].ok /\ allowLog[k].ok
          /\ Cardinality({m \in Allowed : m < j}) = 2

C9_ZeroMaxCalls ==
    max_calls = 0 =>
        /\ Allowed = {}
        /\ remaining(calls, now) = 0
        /\ lastRemaining = 0
        /\ calls = <<>>

\* C9 witness: a limiter with max_calls = 0 evaluated allow() at two different
\* times.
C9_Witness ==
    /\ max_calls = 0
    /\ \E i, j \in DOMAIN allowLog : allowLog[i].at < allowLog[j].at

\* The first time from now on at which allow() would return True for the
\* recorded timestamps cs; -1 if there is none.
NextAdmission(cs) ==
    LET free(t) == Cardinality({i \in DOMAIN cs : t - cs[i] < period}) < max_calls
        horizon == now..(now + period)
    IN  IF \E t \in horizon : free(t)
        THEN CHOOSE t \in horizon : free(t) /\ \A u \in now..(t - 1) : ~free(u)
        ELSE -1

\* C10: a denied allow() and a read of remaining leave in _calls exactly the
\* timestamps that were there and have not expired, and so do not move the
\* time at which allow() next returns True.
C10_DenialRecordsNothing ==
    [][((AllowEvaluated /\ ~AllowReturned) \/ (~AllowEvaluated /\ now' = now)) =>
          /\ calls' = SelectSeq(calls, LAMBDA t : now - t < period)
          /\ now' = now
          /\ NextAdmission(calls') = NextAdmission(calls)]_vars

\* C10 witness: after a denied call the limiter, whose slot was still taken at
\* the denial, allowed a later call.
C10_Witness ==
    \E j, k \in DOMAIN allowLog :
        /\ j < k
        /\ ~allowLog[j].ok /\ allowLog[k].ok
        /\ max_calls > 0
        /\ allowLog[k].at > allowLog[j].at

\* A step that is one read of the remaining property (it may drop expired
\* timestamps; the clock does not move and allow() is not evaluated).
RemainingRead == ~AllowEvaluated /\ now' = now

\* What an allow() or remaining evaluation left of the timestamps that were
\* recorded before it: _calls afterwards, less the timestamp an allowed call
\* appended.
LeftOf(cs) == IF AllowEvaluated /\ AllowReturned
              THEN SubSeq(cs, 1, Len(cs) - 1) ELSE cs

\* C11 as stated: every allow() and every remaining evaluation discards
\* exactly the recorded timestamps whose age exceeds period, so a timestamp of
\* age exactly period is kept and still counts against the limit.
C11_DiscardsOlderThanPeriod ==
    [][(AllowEvaluated \/ RemainingRead) =>
          LeftOf(calls') = SelectSeq(calls, LAMBDA t : now - t <= period)]_vars

\* C11 (amended): every allow() and every remaining evaluation discards
\* exactly the recorded timestamps whose age has reached period (age >= period)
\* and keeps all others in order; a recorded call counts against the limit
\* while its age is below period, and a full limiter admits a new call as soon
\* as the age of its oldest recorded call has reached period.
C11_DiscardsAtPeriod ==
    [][(AllowEvaluated \/ RemainingRead) =>
          /\ LeftOf(calls') = SelectSeq(calls, LAMBDA t : now - t < period)
          /\ \A i \in DOMAIN calls :
                now - calls[i] >= period => \A j \in DOMAIN LeftOf(calls') :
                                               LeftOf(calls')[j] # calls[i]
          /\ AllowEvaluated =>
                /\ Cardinality(LiveCalls(now)) >= max_calls => ~AllowReturned
                /\ (/\ max_calls > 0
                    /\ Len(calls) = max_calls
                    /\ now - calls[1] >= period) => AllowReturned]_vars

\* C11 witness: a limiter with max_calls = 1 allowed a call and, exactly
\* period later, allowed the next one.
C11_Witness ==
    /\ max_calls = 1
    /\ \E i, j \in DOMAIN allowLog :
          /\ i < j
          /\ allowLog[i].ok /\ allowLog[j].ok
          /\ allowLog[j].at - allowLog[i].t = period
          /\ \A k \in DOMAIN allowLog : (i < k /\ k < j) => ~allowLog[k].ok

\* ============================================================ SANITIZATION CLAIMS

\* ASCII control characters among the characters of the model.
ControlChars == {"\t", "\n", "\r", "\f", "NUL", "ESC", "US"}

\* _sanitize has been applied to a string.
Sanitized == applied.fn = "_sanitize"

\* C12 as stated: whatever string _sanitize is given, the string it returns
\* contains no control character (tab, newline, carriage return and the other
\* ASCII control codes included).
C12_NoControlChars ==
    Sanitized => \A i \in DOMAIN applied.result :
                     applied.result[i] \notin ControlChars

\* The characters of s that the pattern of _sanitize lets through, in order.
Cleaned(s) == SelectSeq(s, Kept)

\* C13: the string _sanitize returns is never longer than _MAX_PARAM_LEN; it
\* is the first _MAX_PARAM_LEN characters of the cleaned input (removal first,
\* cut second), so an input of LongLen allowed characters yields exactly
\* _MAX_PARAM_LEN characters.
C13_CutAfterCleaning ==
    Sanitized =>
        /\ Len(applied.result) <= MAX_PARAM_LEN
        /\ Len(applied.result) =
              IF Len(Cleaned(applied.args)) <= MAX_PARAM_LEN
              THEN Len(Cleaned(applied.args)) ELSE MAX_PARAM_LEN
        /\ \A i \in DOMAIN applied.result :
              applied.result[i] = Cleaned(applied.args)[i]
        /\ (/\ Len(applied.args) = LongLen
            /\ \A i \in DOMAIN applied.args : Kept(applied.args[i])) =>
              Len(applied.result) = MAX_PARAM_LEN

\* C13 witness: _sanitize was given LongLen characters of which only the second
\* half is allowed, and returned _MAX_PARAM_LEN characters.
C13_Witness ==
    /\ Sanitized
    /\ Len(applied.args) = LongLen
    /\ ~Kept(applied.args[1])
    /\ Len(Cleaned(applied.args)) > MAX_PARAM_LEN
    /\ Len(applied.result) = MAX_PARAM_LEN

\* The record a successful call wrote and the call_history entry it appended.
LastRecord == transactions'[Len(transactions')]
LastHistory == call_history'[Len(call_history')]

\* The str values of a params dict that _sanitize would alter.
Unclean(params) ==
    {params[i][2] : i \in {j \in DOMAIN params :
        params[j][2].isstr /\ sanitize(params[j][2].chars) # params[j][2].chars}}

\* The values of a params dict.
Values(params) == {params[i][2] : i \in DOMAIN params}

\* C14: for every call_service that returns success, the params in the record
\* it wrote, the params given to the service function and the params in its
\* call_history entry are the given params with every str value replaced by
\* its _sanitize result; the result returned, recorded and kept in
\* call_history is computed from those; so a given str value that _sanitize
\* alters (markup in a city) appears in none of them.
C14_OnlySanitizedValues ==
    [][(Called /\ ret'.outcome = "success") =>
          LET given == did'.params
              clean == [i \in DOMAIN given |->
                          <<given[i][1],
                            IF given[i][2].isstr
                            THEN Str(sanitize(given[i][2].chars))
                            ELSE given[i][2]>>]
          IN  /\ Recorded
              /\ LastRecord.params = clean
              /\ did'.execution.params = clean
              /\ LastHistory.params = clean
              /\ ret'.result = execute_service(ret'.service, clean)
              /\ LastRecord.result = ret'.result
              /\ LastHistory.result = ret'.result
              /\ \A raw \in Unclean(given) :
                    /\ raw \notin Values(LastRecord.params)
                    /\ raw \notin Values(did'.execution.params)
                    /\ raw \notin Values(LastHistory.params)
                    /\ ret'.result.echo # raw
                    /\ LastRecord.result.echo # raw
                    /\ LastHistory.result.echo # raw]_vars

\* C14 witness: a weather call whose city held markup returned success, and
\* the city in its record and in its result is the city without the markup.
C14_Witness ==
    /\ ret.outcome = "success" /\ ret.service = "weather"
    /\ Get(did.params, "city", NonStr) = Str(<<"T", "<", "o">>)
    /\ ret.result.echo = Str(<<"T", "o">>)
    /\ Get(transactions[Len(transactions)].params, "city", NonStr) = Str(<<"T", "o">>)
    /\ Get(call_history[Len(call_history)].params, "city", NonStr) = Str(<<"T", "o">>)

\* ============================================================ PAYMENT CLAIMS

\* The transfer request of a call: destination, amount, description.
Request(t) == <<t.to, t.amount, t.description>>

\* C15: the transfer a call_service issues is determined by the service name:
\* destination and amount are the catalog's address and cost of the service
\* and the description is the service name followed by " API call"; two calls
\* in a row for the same service issue the same request whatever their params.
C15_TransferFromCatalogOnly ==
    [][(Called /\ Transferred) =>
          /\ did'.transfer.to = SERVICE_ADDRESSES[ret'.service]
          /\ did'.transfer.amount = SERVICE_COSTS[ret'.service]
          /\ did'.transfer.description = <<ret'.service, " API call">>
          /\ (did.transfer.made /\ ret.service = ret'.service) =>
                Request(did'.transfer) = Request(did.transfer)]_vars

\* C15 witness: two stock calls with different params, the first with a str
\* symbol (it succeeded), the second with a symbol that is not a str, and the
\* second issued the catalog's transfer for stock.
C15_Witness ==
    /\ ncalls = 2
    /\ okCalls = <<"stock">>
    /\ ret.service = "stock"
    /\ Get(did.params, "symbol", Str(<<>>)) = NonStr
    /\ did.transfer.made
    /\ Request(did.transfer) =
          <<SERVICE_ADDRESSES.stock, SERVICE_COSTS.stock, <<"stock", " API call">> >>

\* ============================================================ WALLET CLAIMS

\* transfer_usdc has been applied to a destination and an amount.
TransferApplied == applied.fn = "transfer_usdc"

\* "0x" followed by exactly 40 hexadecimal characters.
WellFormed(a) ==
    /\ Len(a) = 42
    /\ a[1] = "0" /\ a[2] = "x"
    /\ \A i \in 3..42 : a[i] \in HexDigits

\* C16 as stated: in every wallet mode transfer_usdc answers success=false,
\* from its local tests and with no remote call or demo transfer, for every
\* destination that is not 0x plus exactly 40 hex characters and for every
\* amount <= 0; a malformed destination is reported before a bad amount.
C16_RejectsLocally ==
    TransferApplied =>
        /\ (~WellFormed(applied.args.to_address) \/ applied.args.amount <= 0) =>
              /\ ~applied.result.success
              /\ applied.result.via = "local"
        /\ ~WellFormed(applied.args.to_address) =>
              applied.result.error = "Invalid address format"

\* C17: when the remote call of transfer_usdc raises, the wallet hands back a
\* payment with success=false, and the call_service that asked for it returns
\* the 'Payment failed' error result: it raises nothing, runs no service
\* function and writes no record.
C17_RemoteFailureIsAnErrorResult ==
    [][(Called /\ did'.transfer.raised) =>
          /\ did'.transfer.made /\ did'.transfer.via = "remote"
          /\ ~did'.transfer.success
          /\ ret'.outcome = "error" /\ ret'.error = "Payment failed"
          /\ ~Executed
          /\ transactions' = transactions]_vars

\* C17 witness: on a live wallet the remote call raised and call_service
\* returned the 'Payment failed' error result.
C17_Witness ==
    /\ Live
    /\ did.transfer.raised
    /\ ret.outcome = "error" /\ ret.error = "Payment failed"

\* C18 as stated: in every wallet mode, a call_service result with success=true
\* carries a payment reference that is not empty, and so does every record in
\* the store.
C18_ReferenceNeverEmpty ==
    /\ ret.outcome = "success" => ret.tx_hash # <<>>
    /\ \A i \in DOMAIN transactions : transactions[i].tx_hash # <<>>

\* ============================================================ GATEWAY OUTCOME CLAIMS

\* C19 as stated: every catalog entry has an address the wallet's test accepts
\* and a cost above zero, and on a wallet in simulated mode every call_service
\* for a catalog service that allow() admitted returns success with the
\* catalog cost and a payment reference that is not empty, the most recent
\* record of the store being for that service.
C19_AdmittedDemoCallSucceeds ==
    /\ [](\A s \in DOMAIN SERVICE_COSTS :
              ADDRESS_RE(SERVICE_ADDRESSES[s]) /\ SERVICE_COSTS[s] > 0)
    /\ [][(Called /\ ~Live /\ Known(ret'.service) /\ Admitted) =>
            /\ ret'.outcome = "success"
            /\ ret'.cost_usdc = SERVICE_COSTS[ret'.service]
            /\ ret'.tx_hash # <<>>
            /\ Len(transactions') > 0
            /\ transactions'[Len(transactions')].service = ret'.service]_vars

\* C20: when the store's INSERT raises while call_service records the
\* transaction, the exception leaves record_transaction and call_service: the
\* caller gets the exception and no success result, no record is written and
\* nothing is appended to call_history.
C20_StoreFailurePropagates ==
    [][(Called /\ did'.insert = "raised") =>
          /\ ret'.outcome = "raise" /\ ret'.error = "store"
          /\ transactions' = transactions
          /\ call_history' = call_history
          /\ okCalls' = okCalls]_vars

\* C20 witness: a call paid, ran its service function and was left by the
\* store's exception, after an earlier call had succeeded; call_history holds
\* the earlier call only.
C20_Witness ==
    /\ ret.outcome = "raise" /\ ret.error = "store"
    /\ did.insert = "raised"
    /\ did.transfer.success /\ did.execution.ran
    /\ Len(okCalls) = 1 /\ Len(call_history) = 1
    /\ ncalls = 2

\* ============================================================ STORE CLAIMS

\* A step that is one call of the named store operation on its own.
StoreStep(fn) == applied'.fn = fn /\ (applied.fn # fn \/ applied' # applied)

\* C21: the transaction log only grows at its end: every step leaves the rows
\* that were there in place with all their fields, adds at most one row, and a
\* row that is added has an id above every id already present; each
\* record_transaction adds exactly one row and returns its id.
C21_AppendOnly ==
    [][/\ Len(transactions') \in {Len(transactions), Len(transactions) + 1}
       /\ SubSeq(transactions', 1, Len(transactions)) = transactions
       /\ Len(transactions') = Len(transactions) + 1 =>
             \A i \in DOMAIN transactions :
                 transactions[i].id < transactions'[Len(transactions')].id
       /\ StoreStep("record_transaction") =>
             /\ Len(transactions') = Len(transactions) + 1
             /\ applied'.result = transactions'[Len(transactions')].id
       /\ (~StoreStep("record_transaction") /\ ~Called) =>
             transactions' = transactions]_vars

\* C21 witness: rows were recorded, the store was closed and opened again and
\* key-value state was written, and then one more row was recorded.
C21_Witness ==
    /\ applied.fn = "record_transaction"
    /\ Len(transactions) >= 3
    /\ applied.result = Len(transactions)
    /\ wallet_state # {}
    /\ transactions[1].cost_usdc # transactions[2].cost_usdc

Min(a, b) == IF a <= b THEN a ELSE b

\* C22: get_recent_transactions(limit), limit >= 0, returns min(limit, n) rows
\* of the n in the log, in strictly descending id order, and they are the rows
\* with the highest ids; the call leaves both tables as they were.
C22_MostRecentFirst ==
    /\ [](applied.fn = "get_recent_transactions" =>
            LET limit == applied.args[1]
                rows == applied.result
            IN  /\ Len(rows) = Min(limit, Len(transactions))
                /\ \A i \in DOMAIN rows : rows[i] \in Rows(transactions)
                /\ \A i, j \in DOMAIN rows : i < j => rows[i].id > rows[j].id
                /\ \A r \in Rows(transactions) :
                      (\A i \in DOMAIN rows : rows[i] # r) =>
                          \A i \in DOMAIN rows : r.id < rows[i].id)
    /\ [][StoreStep("get_recent_transactions") =>
            /\ transactions' = transactions
            /\ wallet_state' = wallet_state]_vars

\* C22 witness: with three rows in the log, get_recent_transactions(2) returned
\* the rows with ids 3 and 2, in that order.
C22_Witness ==
    /\ applied.fn = "get_recent_transactions"
    /\ applied.args = <<2>>
    /\ Len(transactions) = 3
    /\ Len(applied.result) = 2
    /\ applied.result[1].id = 3 /\ applied.result[2].id = 2

\* The cost of the first n rows of the log, added up row by row.
RECURSIVE CostOfFirst(_, _)
CostOfFirst(log, n) == IF n = 0 THEN 0
                       ELSE CostOfFirst(log, n - 1) + log[n].cost_usdc

\* C23: get_total_spent returns the sum of cost_usdc over all rows of the log,
\* which is 0 for the empty log, and, costs being non-negative, no step makes
\* it smaller.
C23_TotalIsSumOfCosts ==
    /\ [](applied.fn = "get_total_spent" =>
            /\ applied.result = CostOfFirst(transactions, Len(transactions))
            /\ transactions = <<>> => applied.result = 0)
    /\ [][get_total_spent(transactions') >= get_total_spent(transactions)]_vars
    /\ [][StoreStep("record_transaction") =>
            get_total_spent(transactions') =
                get_total_spent(transactions) + applied'.args[1]]_vars

\* C23 witness: get_total_spent returned 3 after rows of cost 1 and 2 were
\* recorded.
C23_Witness ==
    /\ applied.fn = "get_total_spent"
    /\ Len(transactions) = 2
    /\ transactions[1].cost_usdc = 1 /\ transactions[2].cost_usdc = 2
    /\ applied.result = 3

\* The keys that have a row in a wallet_state table.
KeysOf(table) == {r.key : r \in table}

\* C24: set_state(k, v) makes get_state(k, d) return v for every default d,
\* leaves what get_state returns for every other key, and the transaction log,
\* as they were; no other operation changes what get_state returns; a key that
\* was never set reads as the caller's default; and the table never holds two
\* rows with the same key.
C24_Upsert ==
    /\ [](/\ \A r, q \in wallet_state : r.key = q.key => r = q
          /\ applied.fn = "get_state" =>
                applied.result =
                    IF applied.args[1] \in KeysOf(wallet_state)
                    THEN get_state(wallet_state, applied.args[1], "other")
                    ELSE applied.args[2])
    /\ [][StoreStep("set_state") =>
            /\ \A d \in Defaults :
                  get_state(wallet_state', applied'.args[1], d) = applied'.args[2]
            /\ \A k \in StateKeys \ {applied'.args[1]} : \A d \in Defaults :
                  get_state(wallet_state', k, d) = get_state(wallet_state, k, d)
            /\ transactions' = transactions]_vars
    /\ [][~StoreStep("set_state") => wallet_state' = wallet_state]_vars

\* C24 witness: a key was set and read back with a default given, while the
\* other key, never set, has no row.
C24_Witness ==
    /\ applied.fn = "get_state"
    /\ applied.args = <<"wallet_id", "default">>
    /\ applied.result = "w-456"
    /\ wallet_state = {[key |-> "wallet_id", value |-> "w-456"]}

\* What the three reads of the store return for the given tables.
Reads(log, table) ==
    <<[limit \in 0..MaxLimit |-> get_recent_transactions(log, limit)],
      get_total_spent(log),
      [k \in StateKeys |-> [d \in Defaults |-> get_state(table, k, d)]]>>

\* C25: close, and a new TransactionStore on the path of a store, leave every
\* row of both tables as it was, so that get_recent_transactions,
\* get_total_spent and get_state return after them what they returned before.
C25_ReopenIsIdempotent ==
    [][(StoreStep("close") \/ StoreStep("TransactionStore")) =>
          /\ transactions' = transactions
          /\ wallet_state' = wallet_state
          /\ Reads(transactions', wallet_state') = Reads(transactions, wallet_state)
          /\ StoreStep("TransactionStore") => conn' = "open"]_vars

\* C25 witness: a store that holds a row and a key was closed and a new
\* TransactionStore was opened on its path.
C25_Witness ==
    /\ applied.fn = "TransactionStore"
    /\ applied.args = <<"closed">>
    /\ conn = "open"
    /\ Len(transactions) >= 1 /\ transactions[1].cost_usdc = 1
    /\ get_total_spent(transactions) = 1
    /\ wallet_state # {}

\* C26 as stated: sessions that share one TransactionStore have their writes
\* serialized: no session ever finds an uncommitted row on the connection or
\* gets one from a read, and every record_transaction a session runs is
\* carried out, the record being committed and visible to
\* get_recent_transactions and get_total_spent when it is over.
C26_SharedWritesSerialized ==
    /\ [](/\ uncommitted = <<>>
          /\ (applied.fn = "get_recent_transactions" /\ ~applied.result.raised) =>
                \A i \in DOMAIN applied.result.value :
                    applied.result.value[i] \in Rows(transactions))
    /\ [][StoreStep("record_transaction") =>
            /\ ~applied'.result.raised
            /\ Len(transactions') = Len(transactions) + 1
            /\ get_recent_transactions(transactions', 1)[1].id =
                  applied'.result.value
            /\ get_total_spent(transactions') =
                  get_total_spent(transactions) + applied'.args[2]]_vars

\* ============================================================ HISTORY CLAIMS

\* C27 as stated: call_history and the persisted log never diverge, also after
\* a restart on an existing store: call_history has one entry per persisted
\* record, in the same order, with the same service, cost and payment
\* reference.
C27_HistoryMirrorsLog ==
    /\ Len(call_history) = Len(transactions)
    /\ \A i \in DOMAIN call_history :
          /\ call_history[i].service = transactions[i].service
          /\ call_history[i].cost = transactions[i].cost_usdc
          /\ call_history[i].payment_tx = transactions[i].tx_hash

\* ============================================================ ORCHESTRATOR CLAIMS

\* A step in which process handled one query.
ProcessStep == applied'.fn = "process" /\ nqueries' = nqueries + 1

\* The query process was given and what it routes on, and what the provider did.
Asked == applied'.args.query
Routed == Lower(SubSeqTo(Asked, QUERY_MAX_LEN))
Provided == applied'.args.provider
Replied == applied'.result

\* The class of the first rule that matches in the order weather >
\* stock/price/ticker > news > balance/wallet > history > fallback.
PriorityClass(q) ==
    IF In(KW_weather, q) THEN "weather"
    ELSE IF In(KW_stock, q) \/ In(KW_price, q) \/ In(KW_ticker, q) THEN "stock"
    ELSE IF In(KW_news, q) THEN "news"
    ELSE IF In(KW_balance, q) \/ In(KW_wallet, q) THEN "balance"
    ELSE IF In(KW_history, q) THEN "history"
    ELSE "fallback"

\* process called call_service in this step.
CalledService == ncalls' = ncalls + 1

\* The free answers, by class.
FreeKinds == {"prompt", "balance", "history", "no_transactions", "provider",
              "help", "try"}
KindClass(kind) ==
    CASE kind = "balance" -> "balance"
      [] kind \in {"history", "no_transactions"} -> "history"
      [] kind \in {"provider", "help", "try"} -> "fallback"
      [] OTHER -> "none"

\* C28 as stated: with and without the completion provider, a query that is
\* not blank is handled by the first rule that matches in the order weather >
\* stock/price/ticker > news > balance/wallet > history > fallback.
C28_PriorityOrder ==
    [][(ProcessStep /\ ~Blank(Asked)) =>
          \A q \in {Routed} : \A class \in {PriorityClass(q)} :
             IF CalledService
             THEN ret'.service = class
             ELSE KindClass(Replied.kind) = class]_vars

\* C29: a query handled by process reaches call_service at most once, and a
\* query answered as balance, history, empty or unrecognized reaches it not
\* at all: no transfer is attempted, the limiter records nothing, and the
\* transaction log and call_history stay as they were.
C29_FreeQueriesCallNothing ==
    [][ProcessStep =>
          /\ ncalls' \in {ncalls, ncalls + 1}
          /\ Len(calls') <= Len(calls) + 1
          /\ Len(transactions') <= Len(transactions) + 1
          /\ Replied.kind \in FreeKinds =>
                /\ ncalls' = ncalls
                /\ did' = did
                /\ calls' = calls
                /\ transactions' = transactions
                /\ call_history' = call_history
          /\ CalledService =>
                Replied.kind \in {did'.execution.service, "error", "raise"}]_vars

\* A balance query was answered on a store that holds a record of an earlier
\* run: the total spent is shown, no call_service was made, the limiter and
\* the log are as they were.
C29_Witness ==
    /\ applied.fn = "process"
    /\ applied.args.query = KW_balance
    /\ applied.result.kind = "balance"
    /\ applied.result.total = OldRow.cost_usdc
    /\ ncalls = 0
    /\ calls = <<>>
    /\ ~did.transfer.made
    /\ transactions = <<OldRow>>
    /\ call_history = <<>>

\* The text process got from the provider: "" when generate_content raised.
ProviderText == IF Provided.raises THEN <<>> ELSE Provided.text

\* The params the query alone determines for a paid service (a set of one).
QueryParams(service, query) ==
    CASE service = "weather" ->
            {<< <<"city", Str(city)>> >> : city \in {extract_city(query)}}
      [] service = "stock" ->
            {<< <<"symbol", Str(symbol)>> >> : symbol \in {extract_symbol(query)}}
      [] service = "news" ->
            {<< <<"topic", Str(topic)>> >> : topic \in {extract_topic(query)}}
      [] OTHER -> {<<>>}

\* What C30 requires of a process step whose query has the given class.
AdvisoryStep(query, class, paid) ==
    /\ CalledService <=> paid
    /\ paid =>
          /\ ret'.service = class
          /\ did'.params \in QueryParams(class, query)
          /\ did'.transfer.made =>
                /\ did'.transfer.to = SERVICE_ADDRESSES[class]
                /\ did'.transfer.amount = SERVICE_COSTS[class]
          /\ Len(transactions') > Len(transactions) =>
                transactions'[Len(transactions')].service = class
    /\ ~paid =>
          /\ did' = did
          /\ calls' = calls
          /\ transactions' = transactions
          /\ call_history' = call_history
    /\ Replied.kind = "provider" <=>
          (class = "fallback" /\ ProviderText # <<>>)
    /\ Replied.kind = "provider" => Replied.text = Provided.text
    /\ Replied.kind = "raise" => did'.insert = "raised"

\* C30: with a completion provider, what process does for a query is fixed by
\* the query alone, whatever text the provider returns and whether or not it
\* raises: call_service is reached exactly when a paid keyword rule matches,
\* for the service and params the query determines, the transfer goes to that
\* service's address for its cost, and a record written is for that service;
\* the provider's text is the reply exactly when no keyword rule matches and
\* the text is not empty, and a provider exception never leaves process.
C30_ProviderIsAdvisory ==
    [][(ProcessStep /\ model /\ ~Blank(Asked)) =>
          \A query \in {SubSeqTo(Asked, QUERY_MAX_LEN)} :
          \A q \in {Lower(query)} : \A class \in {PriorityClass(q)} :
             AdvisoryStep(query, class, class \in DOMAIN SERVICE_COSTS)]_vars

\* The provider answered a news query with a text that names the stock
\* service: the news service was called, paid and recorded, and the reply is
\* the news.
C30_Witness ==
    /\ applied.fn = "process"
    /\ model
    /\ applied.args.query = KW_news
    /\ applied.args.provider = [raises |-> FALSE, text |-> KW_stock]
    /\ applied.result.kind = "news"
    /\ did.transfer.made /\ did.transfer.to = SERVICE_ADDRESSES.news
    /\ Len(transactions) = base + 1
    /\ transactions[Len(transactions)].service = "news"

\* ============================================================ MAIN LOOP CLAIMS

\* A turn of the main loop that ran a query, and one that ended the session.
QueryTurn == nqueries' = nqueries + 1 /\ applied'.fn = "process"
SessionEnds == loop.running /\ ~loop'.running
ReadToEnd ==
    /\ applied'.fn = "main"
    /\ \/ applied'.args = Interrupt
       \/ /\ applied'.args.raises = "none"
          /\ Lower(str_strip(applied'.args.text)) \in ExitWords

\* C31: a failed call never ends the interactive session.  Whatever the
\* query of a turn produces (a service reply, an error result such as a
\* rate-limit denial or a failed payment, a free answer, or an exception that
\* leaves process, such as a failed store write), the loop prints a message
\* (the reply, or the error when process raised) and goes on reading; the
\* loop ends only when the input is exit, quit or bye or on a keyboard
\* interrupt, nothing happens after it ended, and a turn runs at most one
\* query and one call_service, leaving no call suspended.
C31_SessionSurvivesFailures ==
    [][ /\ loop.running
        /\ QueryTurn =>
             /\ loop'.running
             /\ loop'.printed = IF applied'.result.kind = "raise"
                                THEN "error" ELSE "agent"
        /\ SessionEnds => ReadToEnd /\ nqueries' = nqueries
        /\ nqueries' \in {nqueries, nqueries + 1}
        /\ ncalls' \in {ncalls, ncalls + 1}
        /\ tasks' = <<>>
      ]_vars

\* C31 witness: the store write of a paid call failed after the payment, the
\* exception left process, and the session went on to answer the next query.
C31_Witness ==
    /\ loop.running
    /\ nqueries = 2
    /\ ret.outcome = "raise"
    /\ applied.fn = "process"
    /\ applied.result.kind \in {"balance", "history", "no_transactions"}
    /\ loop.printed = "agent"

\* ============================================================ BALANCE CLAIMS

BalanceRead == applied'.fn = "get_balance" /\ ncalls' = ncalls
CallAfterBalance == applied.fn = "get_balance" /\ ncalls' = ncalls + 1

\* C32: get_balance never fails for its caller and never touches the payment
\* path.  Every get_balance returns a balance: the fallback {usdc: 10.0,
\* native: 0.1} in simulated mode and whenever the remote balance call
\* raises, the remote balances otherwise; it changes nothing else.  A
\* call_service made after it is admitted by the limiter alone and requests
\* the transfer of the catalog cost exactly when it is admitted for a catalog
\* service, whatever balance was returned (one below the cost included).
C32_BalanceNeverFails ==
    [][ /\ BalanceRead =>
             /\ applied'.result =
                    IF ~Live \/ applied'.args.raises THEN DEMO_BALANCE
                    ELSE applied'.args.balances
             /\ UNCHANGED <<limiterVars, gatewayVars>>
        /\ CallAfterBalance =>
             /\ did'.admission =
                    IF ret'.service \notin DOMAIN SERVICE_COSTS THEN "none"
                    ELSE IF Admits(prune(calls, now)) THEN "allowed"
                    ELSE "denied"
             /\ did'.transfer.made <=> did'.admission = "allowed"
             /\ did'.transfer.made =>
                    did'.transfer.amount = SERVICE_COSTS[ret'.service]
      ]_vars

\* C32 witness: on a live wallet the remote balance call raised, get_balance
\* returned the fallback, and a paid call went through.
C32_Witness ==
    /\ Live
    /\ applied.fn = "get_balance"
    /\ applied.args.raises
    /\ applied.result = DEMO_BALANCE
    /\ ret.outcome = "success"

\* ============================================================ WALLET CREATION CLAIMS

CreateStep == applied'.fn = "create_wallet"

\* C33: create_wallet with a network selector outside {ARC-TESTNET,
\* ARC-MAINNET} raises the local validation error (ValueError) without
\* calling the remote service, whether the wallet has a client or not, and
\* leaves the wallet's client, id and address as they were.
C33_InvalidSelectorRejected ==
    [][ CreateStep /\ applied'.args.blockchain \notin {"ARC-TESTNET", "ARC-MAINNET"} =>
          /\ applied'.result.outcome = "raise"
          /\ applied'.result.mode = "ValueError"
          /\ ~applied'.result.remote_called
          /\ wallet' = wallet
      ]_vars

\* C33 witness: a live wallet with id and address was asked for a wallet on
\* an unknown network, raised, and kept its id and address.
C33_Witness ==
    /\ applied.fn = "create_wallet"
    /\ applied.args.blockchain = "INVALID"
    /\ applied.result.outcome = "raise"
    /\ wallet = Wallet(TRUE, "w1", "0xW1")

\* ============================================================ EXTRACTION CLAIMS

Mumbai == <<"M", "u", "m", "b", "a", "i">>
AAPL == <<"A", "A", "P", "L">>
Technology == <<"t", "e", "c", "h", "n", "o", "l", "o", "g", "y">>

\* The positions of the tokens each rule matches: a token that follows
\* in/for/at (in any case), or about/on/for in the lower-cased query; a token
\* that starts with an upper-case letter and is not what/how/get/check/show;
\* a token of the upper-cased query that, without the ?.,! around it, is 1 to
\* 5 letters and outside the stop-list.
Followers(words, prepositions) ==
    {i \in 2..Len(words) : Lower(words[i - 1]) \in prepositions}
Capitals(words) ==
    {i \in DOMAIN words : /\ words[i][1] \in UpperLetters
                          /\ Lower(words[i]) \notin CityStopWords}
Tickers(words) ==
    {i \in DOMAIN words : /\ Len(Strip(words[i])) \in 1..5
                          /\ \A k \in DOMAIN Strip(words[i]) :
                                Strip(words[i])[k] \in Letters
                          /\ Strip(words[i]) \notin SymbolStopWords}

\* value is the first of the matching tokens (without the ?.,! around it),
\* or the default when there is none.
FirstOrDefault(value, words, matches, default) ==
    IF matches = {} THEN value = default
    ELSE \E i \in matches : /\ \A j \in matches : i <= j
                            /\ value = Strip(words[i])

SymbolAndTopicRules ==
    /\ \A words \in {Split(Upper(applied.args))} :
          FirstOrDefault(applied.result.symbol, words, Tickers(words), AAPL)
    /\ \A words \in {Split(Lower(applied.args))} :
          FirstOrDefault(applied.result.topic, words,
                         Followers(words, TopicPrepositions), Technology)

\* C34 as stated: the city is the first token that follows in/for/at and
\* "Mumbai" when no token follows one; the ticker is the first all-letters
\* token of at most 5 characters outside the stop-list and "AAPL" when there
\* is none; the topic is the first token that follows about/on/for and
\* "technology" when no token follows one.
C34_DefaultWhenNoMatch ==
    applied.fn = "extract" =>
        /\ \A words \in {Split(applied.args)} :
              FirstOrDefault(applied.result.city, words,
                             Followers(words, CityPrepositions), Mumbai)
        /\ SymbolAndTopicRules

\* C34 amended: the city has a second rule before its default.  It is the
\* first token that follows in/for/at; when no token follows one, the first
\* token that starts with an upper-case letter and is not
\* what/how/get/check/show; "Mumbai" only when there is neither.  Ticker and
\* topic are as stated.  Every token is returned without the ?.,! around it.
C34_FirstMatchOrDefault ==
    applied.fn = "extract" =>
        /\ \A words \in {Split(applied.args)} :
              IF Followers(words, CityPrepositions) # {}
              THEN FirstOrDefault(applied.result.city, words,
                                  Followers(words, CityPrepositions), Mumbai)
              ELSE FirstOrDefault(applied.result.city, words,
                                  Capitals(words), Mumbai)
        /\ SymbolAndTopicRules

\* C34 witness: a query without preposition and with a capitalised word gave
\* that word as the city, and the default as the topic.
C34_Witness ==
    /\ applied.fn = "extract"
    /\ Followers(Split(applied.args), CityPrepositions) = {}
    /\ applied.result.city = <<"T", "o", "k", "y", "o">>
    /\ applied.result.topic = Technology

\* ============================================================ COROUTINE CLAIMS

\* The coroutines whose transfer was requested in the window [s, s + period).
AttemptsIn(s) == {i \in DOMAIN tasks : s <= tasks[i].at /\ tasks[i].at < s + period}

\* The rows written since the gateway was constructed, and the coroutines
\* that wrote row r.
NewRows == (base + 1)..Len(transactions)
WritersOf(r) == {i \in DOMAIN tasks : tasks[i].record = r}

\* C35: admission stays sound while call_service coroutines interleave at
\* the wallet await.  Every coroutine that reached the await holds a slot of
\* the limiter taken at its admission (the check and the append are one step),
\* so no window of period_seconds holds more than max_calls transfer
\* requests, however many coroutines are suspended; and every row written
\* since construction was written by exactly one coroutine, which was
\* admitted, whose transfer reported success and which has returned, the row
\* carrying that coroutine's service, sanitized params and catalog cost.
C35_AdmissionSoundUnderInterleaving ==
    /\ \A s \in 0..now : Cardinality(AttemptsIn(s)) <= max_calls
    /\ \A i \in DOMAIN tasks : tasks[i].pc = "awaiting" => tasks[i].record = 0
    /\ \A r \in NewRows :
          /\ Cardinality(WritersOf(r)) = 1
          /\ \A i \in WritersOf(r) :
                /\ tasks[i].pc = "done"
                /\ tasks[i].paid
                /\ transactions[r].service = tasks[i].service
                /\ transactions[r].params = tasks[i].sanitized_params
                /\ transactions[r].cost_usdc = SERVICE_COSTS[tasks[i].service]

\* C35 witness: two coroutines were admitted in one window and suspended
\* together; the one admitted second returned first and wrote its row while
\* the other was still at the await.
C35_Witness ==
    /\ Len(tasks) >= 2
    /\ tasks[1].pc = "awaiting"
    /\ tasks[2].pc = "done"
    /\ tasks[2].record = Len(transactions)
    /\ tasks[2].record > base
    /\ tasks[1].at = tasks[2].at
    /\ tasks[1].service # tasks[2].service

\* ============================================================ APP CLAIMS

\* The exact sum of the amounts listed in txs: each cost times the number of
\* transactions of that cost (every listed amount is one of the three costs).
ListedWith(txs, amount) == {i \in DOMAIN txs : txs[i].amount = amount}
AmountsListed(txs) ==
    LET cost == APP_SERVICE_COSTS
        weather == Cardinality(ListedWith(txs, cost.weather))
        stock == Cardinality(ListedWith(txs, cost.stock))
        news == Cardinality(ListedWith(txs, cost.news))
    IN  Double(weather * cost.weather.k + stock * cost.stock.k
                   + news * cost.news.k,
               weather * cost.weather.d + stock * cost.stock.d
                   + news * cost.news.d)

\* The double nearest to the exact number x is the double y of [8, 16).
Abs(i) == IF i < 0 THEN -i ELSE i
NearestDoubleIs(x, y) ==
    /\ x.k = y.k
    /\ 2 * Abs(x.d - y.d) <= 2 ^ 13

\* Balance plus listed amounts is the initial 10.0: the exact sum has 10.0 as
\* its nearest double (the most the claim can mean on doubles).
BalanceConserved ==
    \A listed \in {AmountsListed(session_state.transactions)} :
        NearestDoubleIs(Double(session_state.wallet_balance.k + listed.k,
                               session_state.wallet_balance.d + listed.d),
                        INITIAL_BALANCE)

BalanceNotNegative == AtLeast(session_state.wallet_balance, Double(0, 0))

\* A step of the chat handler that called process_payment, and a step of the
\* reset button.
PaymentStep == nqueries' = nqueries + 1 /\ applied'.fn = "process_payment"
OtherQuery == nqueries' = nqueries + 1 /\ applied'.fn = "chat"
ResetStep == nqueries' = nqueries /\ applied'.fn = "reset"

\* What one process_payment call did: it returned True exactly when the
\* balance covered the cost; on False the balance and the list are as they
\* were; on True exactly one transaction, of the cost, was appended.
PaymentDebitsOnlyWhenCovered ==
    PaymentStep =>
        \A cost \in {APP_SERVICE_COSTS[applied'.args]} :
            /\ applied'.result = AtLeast(session_state.wallet_balance, cost)
            /\ ~applied'.result =>
                  /\ session_state'.wallet_balance = session_state.wallet_balance
                  /\ session_state'.transactions = session_state.transactions
            /\ applied'.result =>
                  /\ Len(session_state'.transactions)
                         = Len(session_state.transactions) + 1
                  /\ session_state'.transactions
                         = Append(session_state.transactions,
                                  [amount |-> cost, description |-> applied'.args])

ResetRestores == ResetStep => session_state' = InitialSessionState

\* A prompt that names no paid service leaves balance and list alone.
NoPaymentNoDebit ==
    OtherQuery =>
        /\ session_state'.wallet_balance = session_state.wallet_balance
        /\ session_state'.transactions = session_state.transactions

\* The parts of C36 that do not add amounts up.
DebitsAndReset ==
    /\ []BalanceNotNegative
    /\ [][PaymentDebitsOnlyWhenCovered /\ NoPaymentNoDebit /\ ResetRestores]_vars

\* C36: process_payment debits only when the balance covers the amount.
\* After any sequence of paid queries and resets the wallet balance is never
\* negative; a payment that returns False changes neither the balance nor
\* the transaction list; each payment that returns True appends exactly one
\* transaction; the balance plus the sum of the listed transaction amounts is
\* always the initial 10.0; reset restores balance 10.0 with an empty list.
C36_PaymentsConserveBalance ==
    /\ DebitsAndReset
    /\ []BalanceConserved

====
